---- MODULE Spec2Model ----
(***************************************************************************)
(* Model of the pahkat prefix package store                               *)
(* (pahkat-client-core/src/package_store/prefix.rs): the installed-files  *)
(* ledger kept in SQLite, the files unpacked under <prefix>/pkg/<id>/,    *)
(* the repository map and the download cache, with install, uninstall,    *)
(* status and refresh_repos as atomic operations of one caller.           *)
(***************************************************************************)
EXTENDS Integers, Sequences, FiniteSets, TLC

\* ------------------------------------------------------------------ bounds
MaxVersion == 2   \* release versions are 1..MaxVersion
MaxEntries == 1   \* a tarball has at most MaxEntries entries
MaxActions == 2   \* a transaction is asked for at most MaxActions actions
MaxProgress == 1  \* a download reports progress at most MaxProgress times
MaxBytes == 2     \* a server sends at most MaxBytes bytes for a payload
MaxCalls == 6      \* at most MaxCalls calls into one store run at the same time
MaxStreams == 2    \* at most MaxStreams transactions are submitted through the rpc client
MaxStatements == 7 \* a database write has at most MaxStatements steps, the commit included

\* ------------------------------------------------------- values and helpers
RepoUrl == "r"
PackageIds == {"a", "b"}
Keys == {[repo |-> RepoUrl, id |-> i] : i \in PackageIds}

\* PackageKey::to_string, the canonical form <repo-url>#<package-id>
\* (no query part: the keys of the model set no query field)
to_string(k) == k.repo \o "#" \o k.id

\* the threads that call into one store
Threads == {"t1", "t2"}
\* a thread that holds no read guard on self.repos
Idle == [op |-> "idle", key |-> [repo |-> "", id |-> ""]]

\* the dependency maps a target can have, as the set of their keys
DepSets == {{}, {"zlib"}}

\* Vec<String> of the keys of the BTreeMap `dependencies`, in key order
DepList(s) ==
    IF s = {} THEN <<>>
    ELSE <<"zlib">>

\* Version::to_string and the parse done by cmp: "<n>.0.0"
VersionToString(v) == ToString(v) \o ".0.0"
ParseVersion(s) == CHOOSE v \in 0..(MaxVersion + 1) : VersionToString(v) = s

\* paths are sequences of components; "/" is the root component
Prefix == <<"/", "p">>
package_dir(package_id) == Prefix \o <<"pkg", package_id>>

IsPrefixOf(a, b) == Len(a) <= Len(b) /\ SubSeq(b, 1, Len(a)) = a

RECURSIVE JoinStr(_)
\* Path::to_str of a relative path: components joined by "/"
JoinStr(p) ==
    IF Len(p) = 0 THEN ""
    ELSE IF Len(p) = 1 THEN p[1]
    ELSE p[1] \o "/" \o JoinStr(Tail(p))

\* the entries a tarball can hold: header path and entry type
Entries ==
    { [path |-> <<"f">>,                 kind |-> "file"],
      [path |-> <<"..", "evil">>,        kind |-> "file"],
      [path |-> <<"/", "p", "f">>,       kind |-> "file"],
      [path |-> <<"/", "p", "p", "f">>,  kind |-> "file"] }

Tarballs == UNION {[1..n -> Entries] : n \in 0..MaxEntries}

\* tarballs of several entries whose recorded paths exist below the
\* package directory: directories e/h, p/e, p/e/h and files f, p/f below
\* the prefix
Dir(path) == [path |-> path, kind |-> "dir"]
Reg(path) == [path |-> path, kind |-> "file"]
NestedParentFirst ==
    <<Dir(<<"/", "p", "e", "h">>), Dir(<<"/", "p", "p", "e">>), Dir(<<"/", "p", "p", "e", "h">>)>>
NestedChildFirst ==
    <<Dir(<<"/", "p", "e", "h">>), Dir(<<"/", "p", "p", "e", "h">>), Dir(<<"/", "p", "p", "e">>)>>
TwoFiles == <<Reg(<<"/", "p", "p", "f">>), Reg(<<"/", "p", "f">>)>>
NestedTarballs == {NestedParentFirst, NestedChildFirst, TwoFiles}
NestedEntries == UNION {{tb[i] : i \in 1..Len(tb)} : tb \in NestedTarballs}

\* relative paths that strip_prefix can leave, for parsing a stored string
RelPaths == {SubSeq(e.path, Len(Prefix) + 1, Len(e.path)) :
                e \in {x \in Entries \cup NestedEntries : IsPrefixOf(Prefix, x.path)}}
\* Path::join(pkg_path, file) reads the stored string back as components
StrToPath(s) == CHOOSE p \in RelPaths : JoinStr(p) = s

\* one release per package: version, payload variant, dependency map keys
Releases == [version : 1..MaxVersion,
             payload : {"TarballPackage"},
             deps    : DepSets]
            \cup {[version |-> 1, payload |-> "WindowsExecutable", deps |-> {}]}

\* HashMap<Url, LoadedRepository>: the repository may be absent, and each
\* package of a loaded repository may be absent
Snapshots ==
    {<<>>} \cup
    { [u \in {RepoUrl} |-> idx] :
        idx \in UNION {[ids -> Releases] : ids \in SUBSET PackageIds} }

\* installer.url of the payload of package id: one payload file per package
PayloadUrl(id) == "https://" \o RepoUrl \o "/" \o id \o ".txz"

\* config.repos(): the configured repository urls
OtherUrl == "s"
ConfigUrls == {RepoUrl, OtherUrl}
\* a url whose index could not be loaded
Failed == [ok |-> FALSE, index |-> <<>>]
Loaded(idx) == [ok |-> TRUE, index |-> idx]
\* the indexes a url can serve: package a, as a tarball with no dependencies
Indexes ==
    {idx \in UNION {[ids -> Releases] : ids \in SUBSET {"a"}} :
        \A i \in DOMAIN idx : idx[i].payload = "TarballPackage" /\ idx[i].deps = {}}

NULL == <<>>
Text(s) == <<s>>

VARIABLES
    repos,                 \* self.repos
    cache,                 \* payload urls present in the download cache
    diskFiles,             \* regular files under the prefix
    diskDirs,              \* directories under the prefix
    packages,              \* table packages(id, url, version)
    packages_files,        \* table packages_files(package_id, file_path)
    packages_dependencies, \* table packages_dependencies(package_id, dependency_id)
    result,                \* the last operation and what it returned
    lastOp,                \* history, per key: the last successful install/uninstall
    db_writable,           \* the SQLite file accepts writes (FALSE: a write fails)
    guards,                \* per thread: the call that holds a read guard on self.repos
    pending,               \* the map a refresh has loaded and not yet stored
    served,                \* per configured url: the index it serves now, or Failed
    tx,                    \* the package transaction: its plan and its execution
    dlm,                   \* the download in progress and the files of the cache
    cli,                   \* the install command of pahkat-cli: where it is, what it returned
    un,                    \* the uninstall call in progress, between two file system calls
    db_fail_at,            \* the statement of a database write that fails (0: none)
    calls,                 \* the running calls into the store, by the place they are at
    rpc                    \* the rpc client: CURRENT_CANCEL_TX, the request streams, the tasks

vars == <<repos, cache, diskFiles, diskDirs, packages, packages_files,
          packages_dependencies, result, lastOp, db_writable, guards, pending,
          served, tx, dlm, cli, un,
          db_fail_at, calls, rpc>>

\* the state of the package store, and the state beyond it
store == <<repos, cache, diskFiles, diskDirs, packages, packages_files,
           packages_dependencies, result, lastOp>>
locks == <<guards, pending>>
outside == <<cli, un, db_fail_at, calls, rpc>>
beyond_store == <<db_writable, locks, served, tx, dlm, outside>>

db == <<packages, packages_files, packages_dependencies>>
disk == <<diskFiles, diskDirs>>

\* ------------------------------------------------------------ the resolver
\* crate::repo::resolve_payload(key, query, repos): repository, then package,
\* then the release whose target has an allowed payload kind
resolve_payload(key, payloads, rs) ==
    IF key.repo \notin DOMAIN rs
    THEN [err |-> "NoRepository"]
    ELSE IF key.id \notin DOMAIN rs[key.repo]
    THEN [err |-> "NoPackage"]
    ELSE LET release == rs[key.repo][key.id] IN
         IF release.payload \notin payloads
         THEN [err |-> "NoMatchingPayload"]
         ELSE [err |-> "", release |-> release, package |-> key.id]

AllPayloads == {"TarballPackage", "WindowsExecutable"}

\* the resolver over package descriptors with several releases, each with a
\* version, a channel ("" for none) and targets in declared order
HostPlatform == "linux"
HostArch == "x86_64"
Targets ==
    { [platform |-> "linux",   arch |-> "x86_64", payload |-> "TarballPackage"],
      [platform |-> "linux",   arch |-> "",       payload |-> "TarballPackage"],
      [platform |-> "linux",   arch |-> "arm",    payload |-> "TarballPackage"],
      [platform |-> "windows", arch |-> "x86_64", payload |-> "TarballPackage"],
      [platform |-> "linux",   arch |-> "x86_64", payload |-> "WindowsExecutable"] }
Channels == {"", "beta"}

\* ReleaseQuery::from(key), and_payloads: channel, platform, architecture
\* and the allowed payload kinds
ReleaseQuery(channel, payloads) ==
    [channel |-> channel, platform |-> HostPlatform, arch |-> HostArch,
     payloads |-> payloads]

\* step 5: platform, architecture (none matches anything), payload kind
TargetMatches(t, q) ==
    /\ t.platform = q.platform
    /\ t.arch = "" \/ t.arch = q.arch
    /\ t.payload \in q.payloads

RECURSIVE InsertByVersion(_, _)
\* step 4: r goes before the first release of a lower version
InsertByVersion(r, sorted) ==
    IF sorted = <<>> THEN <<r>>
    ELSE IF Head(sorted).version < r.version THEN <<r>> \o sorted
    ELSE <<Head(sorted)>> \o InsertByVersion(r, Tail(sorted))

Unsorted(rels) == rels

RECURSIVE SortByVersionDescending(_)
\* step 4: the releases by version, descending
SortByVersionDescending(rels) ==
    IF rels = <<>> THEN <<>>
    ELSE InsertByVersion(rels[Len(rels)],
                         SortByVersionDescending(SubSeq(rels, 1, Len(rels) - 1)))

RECURSIVE FirstMatch(_, _)
\* steps 5 and 6: the first release, in order, with a matching target, and
\* its first matching target
FirstMatch(rels, q) ==
    IF rels = <<>> THEN [err |-> "NoMatchingPayload"]
    ELSE LET ts == SelectSeq(Head(rels).targets, LAMBDA t : TargetMatches(t, q))
         IN  IF ts # <<>>
             THEN [err |-> "", target |-> ts[1], release |-> Head(rels)]
             ELSE FirstMatch(Tail(rels), q)

\* crate::repo::resolve_payload(key, query, repos) on such descriptors
resolve(key, q, rs) ==
    IF key.repo \notin DOMAIN rs THEN [err |-> "NoRepository"]
    ELSE IF key.id \notin DOMAIN rs[key.repo] THEN [err |-> "NoPackage"]
    ELSE LET kept == SelectSeq(rs[key.repo][key.id].releases,
                               LAMBDA r : r.channel = q.channel)
         IN  FirstMatch(SortByVersionDescending(kept), q)

\* crate::cmp::cmp(&record.version, &release.version)
cmp(installed, candidate) ==
    LET i == ParseVersion(installed) IN
    IF i = candidate THEN "UpToDate"
    ELSE IF i < candidate THEN "RequiresUpdate"
    ELSE "VersionSkipped"

\* ------------------------------------------------------- unpacking a tarball
\* tar::Entry::unpack_in(dst): root and "." components are dropped, a ".."
\* component skips the entry (Ok(false)), missing parents are created
UnpackDstInPrefix(dst, entry) ==
    Prefix \o SelectSeq(entry.path, LAMBDA c : c \notin {"/", "."})

UnpackDst(dst, entry) ==
    dst \o SelectSeq(entry.path, LAMBDA c : c \notin {"/", "."})

UnpackIn(dst, entry, F, D) ==
    LET file_dst == UnpackDst(dst, entry)
        parents  == {SubSeq(file_dst, 1, n) : n \in (Len(dst) + 1)..(Len(file_dst) - 1)}
        D1       == D \cup parents
    IN  IF \E i \in 1..Len(entry.path) : entry.path[i] = ".."
        THEN [res |-> "skip", files |-> F, dirs |-> D, at |-> {}]
        ELSE IF file_dst = dst
        THEN [res |-> "ok", files |-> F, dirs |-> D, at |-> {}]
        ELSE IF parents \cap F # {}
        THEN [res |-> "err", files |-> F, dirs |-> D, at |-> {}]
        ELSE IF entry.kind = "file"
        THEN IF file_dst \in D1
             THEN [res |-> "err", files |-> F, dirs |-> D1, at |-> {}]
             ELSE [res |-> "ok", files |-> F \cup {file_dst}, dirs |-> D1,
                   at |-> {file_dst}]
        ELSE IF file_dst \in F
             THEN [res |-> "err", files |-> F, dirs |-> D1, at |-> {}]
             ELSE [res |-> "ok", files |-> F, dirs |-> D1 \cup {file_dst}, at |-> {}]

\* entry.header().path().strip_prefix(&self.prefix)
strip_prefix(path, base) ==
    IF IsPrefixOf(base, path)
    THEN [ok |-> TRUE, rest |-> SubSeq(path, Len(base) + 1, Len(path))]
    ELSE [ok |-> FALSE, rest |-> <<>>]

RECURSIVE UnpackEntries(_, _, _, _, _, _)
\* the loop of install over tar_file.entries(): an unwrap that fails panics
\* and leaves what was unpacked so far
UnpackEntries(tb, pkg_path, F, D, rec, unp) ==
    IF tb = <<>>
    THEN [panic |-> FALSE, files |-> F, dirs |-> D, rec |-> rec, unpacked |-> unp]
    ELSE LET entry == Head(tb)
             u     == UnpackIn(pkg_path, entry, F, D)
             sp    == strip_prefix(entry.path, Prefix)
         IN  IF u.res = "err"
             THEN [panic |-> TRUE, files |-> u.files, dirs |-> u.dirs,
                   rec |-> rec, unpacked |-> unp]
             ELSE IF u.res = "skip"
             THEN UnpackEntries(Tail(tb), pkg_path, F, D, rec, unp)
             ELSE IF ~sp.ok
             THEN [panic |-> TRUE, files |-> u.files, dirs |-> u.dirs,
                   rec |-> rec, unpacked |-> unp \cup u.at]
             ELSE UnpackEntries(Tail(tb), pkg_path, u.files, u.dirs,
                                Append(rec, JoinStr(sp.rest)), unp \cup u.at)

\* ---------------------------------------------------------------- database
\* (SELECT id FROM packages WHERE url = ?): NULL when no row has the url
IdOfUrl(pk, url) ==
    IF \E r \in pk : r.url = url
    THEN Text(ToString((CHOOSE r \in pk : r.url = url).id))
    ELSE NULL

\* PackageDbConnection::version
version(pk, url) ==
    IF \E r \in pk : r.url = url
    THEN [some |-> TRUE, v |-> (CHOOSE r \in pk : r.url = url).version]
    ELSE [some |-> FALSE, v |-> ""]

\* PackageDbConnection::files
files(pk, pf, url) ==
    LET rows == SelectSeq(pf, LAMBDA r : Text(ToString(r.package_id)) = IdOfUrl(pk, url))
    IN  [i \in 1..Len(rows) |-> rows[i].file_path]

\* PackageDbConnection::dependencies: row.get(0) into a String fails on a
\* NULL column, and the unwrap of it panics
dependencies(pk, pd, url) ==
    LET rows == SelectSeq(pd, LAMBDA r : Text(ToString(r.package_id)) = IdOfUrl(pk, url))
    IN  IF \E i \in 1..Len(rows) : rows[i].dependency_id = NULL
        THEN [panic |-> TRUE, list |-> <<>>]
        ELSE [panic |-> FALSE,
              list |-> [i \in 1..Len(rows) |-> rows[i].dependency_id[1]]]

\* the id every PackageDbRecord is built with (install and find_by_id)
RecordId == 0

find_by_id_any_url(pk, pf, pd, key) ==
    IF pk = {}
    THEN [found |-> FALSE, panic |-> FALSE]
    ELSE LET r == CHOOSE x \in pk : x.id = RecordId IN
         [found |-> TRUE, panic |-> FALSE,
          record |-> [id |-> RecordId, url |-> r.url, version |-> r.version,
                      files |-> files(pk, pf, r.url), dependencies |-> <<>>]]

QueryThatDeletes(t) == [packages |-> {}, files |-> <<>>, dependencies |-> <<>>]

\* the tables after the SELECTs of version, files and dependencies
\* (query_row, query_map): a query writes no row
Query(t) == t

\* PackageDbRecord::find_by_id
find_by_id(pk, pf, pd, key) ==
    LET url == to_string(key)
        ver == version(pk, url)
        dps == dependencies(pk, pd, url)
    IN  IF ~ver.some
        THEN [found |-> FALSE, panic |-> FALSE]
        ELSE IF dps.panic
        THEN [found |-> FALSE, panic |-> TRUE]
        ELSE [found |-> TRUE, panic |-> FALSE,
              record |-> [id |-> RecordId, url |-> url, version |-> ver.v,
                          files |-> files(pk, pf, url),
                          dependencies |-> dps.list]]

\* SQL_INIT (prefix/prefix_init.sql), the schema as the specification gives
\* it: packages(id INTEGER PK, url TEXT UNIQUE, version TEXT),
\* packages_files(package_id, file_path TEXT),
\* packages_dependencies(package_id, dependency_id TEXT); no column is NOT NULL
SQL_INIT == [dependency_id_not_null |-> FALSE]

\* the statements of replace_pkg and of remove_pkg, in the order they are
\* executed inside the transaction
Statement(sql, arg) == [sql |-> sql, arg |-> arg]
ReplaceStatements(pkg) ==
    <<Statement("REPLACE INTO packages", ""),
      Statement("DELETE FROM packages_dependencies", ""),
      Statement("DELETE FROM packages_files", "")>>
    \o [i \in 1..Len(pkg.dependencies) |->
           Statement("INSERT INTO packages_dependencies", pkg.dependencies[i])]
    \o [i \in 1..Len(pkg.files) |->
           Statement("INSERT INTO packages_files", pkg.files[i])]
RemoveStatements ==
    <<Statement("DELETE FROM packages", ""),
      Statement("DELETE FROM packages_dependencies", ""),
      Statement("DELETE FROM packages_files", "")>>

\* one statement on the tables t, for the record pkg
Execute(t, pkg, s) ==
    CASE s.sql = "REPLACE INTO packages" ->
           [t EXCEPT !.packages =
              {r \in t.packages : r.id # pkg.id /\ r.url # pkg.url}
                 \cup {[id |-> pkg.id, url |-> pkg.url, version |-> pkg.version]}]
      [] s.sql = "DELETE FROM packages" ->
           [t EXCEPT !.packages = {r \in t.packages : r.id # pkg.id}]
      [] s.sql = "DELETE FROM packages_dependencies" ->
           [t EXCEPT !.dependencies =
              SelectSeq(t.dependencies, LAMBDA r : r.package_id # pkg.id)]
      [] s.sql = "DELETE FROM packages_files" ->
           [t EXCEPT !.files = SelectSeq(t.files, LAMBDA r : r.package_id # pkg.id)]
      [] s.sql = "INSERT INTO packages_dependencies" ->
           [t EXCEPT !.dependencies =
              Append(t.dependencies,
                     [package_id |-> pkg.id,
                      dependency_id |-> IdOfUrl(t.packages, s.arg)])]
      [] s.sql = "INSERT INTO packages_files" ->
           [t EXCEPT !.files =
              Append(t.files, [package_id |-> pkg.id, file_path |-> s.arg])]

RECURSIVE Run(_, _, _, _)
\* the statements in order, n counting them; statement db_fail_at fails,
\* and after the last statement the commit is the one that can fail (the
\* tables after a statement are bound to a value before the next one runs)
Run(t, pkg, stmts, n) ==
    IF n = db_fail_at THEN [ok |-> FALSE, db |-> t]
    ELSE IF stmts = <<>> THEN [ok |-> TRUE, db |-> t]
    ELSE CHOOSE run \in {Run(next, pkg, rest, n + 1) :
                            next \in {Execute(t, pkg, Head(stmts))},
                            rest \in {Tail(stmts)}} : TRUE

DropWithoutRollback(before, now) == now

\* rusqlite::Transaction dropped without commit (by ?, by an unwinding
\* panic or by a failed commit): the drop behaviour is Rollback
DropTransaction(before, now) == before

\* PackageDbConnection::replace_pkg, one transaction: REPLACE deletes every
\* row that collides on the primary key or on the unique url; a failing
\* statement ends the call (an Err from the two `?`, a panic from the
\* unwraps) and the dropped transaction rolls back
replace_pkg(pk, pf, pd, pkg) ==
    LET Ended(before, run) ==
            IF \/ ~db_writable
               \/ /\ SQL_INIT.dependency_id_not_null
                  /\ \E i \in 1..Len(run.db.dependencies) :
                        run.db.dependencies[i].dependency_id = NULL
            THEN [ok |-> FALSE, packages |-> before.packages, files |-> before.files,
                  dependencies |-> before.dependencies]
            ELSE IF ~run.ok
            THEN LET t == DropTransaction(before, run.db) IN
                 [ok |-> FALSE, packages |-> t.packages, files |-> t.files,
                  dependencies |-> t.dependencies]
            ELSE [ok |-> TRUE, packages |-> run.db.packages, files |-> run.db.files,
                  dependencies |-> run.db.dependencies]
    IN  CHOOSE saved \in UNION {
            {Ended(before, run) : run \in {Run(before, p, ReplaceStatements(p), 1)}} :
                before \in {[packages |-> pk, files |-> pf, dependencies |-> pd]},
                p \in {pkg}} : TRUE

\* PackageDbConnection::remove_pkg, one transaction: the three DELETEs and
\* the commit, each returned by ? when it fails
remove_pkg(pk, pf, pd, pkg) ==
    LET Ended(before, run) ==
            LET t == IF ~db_writable THEN before
                     ELSE IF ~run.ok THEN DropTransaction(before, run.db)
                     ELSE run.db
            IN  [ok |-> db_writable /\ run.ok, packages |-> t.packages,
                 files |-> t.files, dependencies |-> t.dependencies]
    IN  CHOOSE removed \in UNION {
            {Ended(before, run) : run \in {Run(before, p, RemoveStatements, 1)}} :
                before \in {[packages |-> pk, files |-> pf, dependencies |-> pd]},
                p \in {pkg}} : TRUE

\* ------------------------------------------------- the transaction planner
\* the packages a plan can name, and the order of their identifiers
PlanIds == {"a", "b", "c"}
IdOrder == <<"a", "b", "c">>
PlanKey(i) == [repo |-> RepoUrl, id |-> i]

\* PackageAction::install(key), PackageAction::uninstall(key)
PackageAction(kind, key) == [kind |-> kind, key |-> key]
PlanActions == {PackageAction(k, PlanKey(i)) : k \in {"install", "uninstall"}, i \in PlanIds}
ActionLists == UNION {[1..n -> PlanActions] : n \in 0..MaxActions}

\* the identifiers in the dependency map of the release of package id
DepsOf(rs, id) ==
    IF RepoUrl \in DOMAIN rs /\ id \in DOMAIN rs[RepoUrl]
    THEN rs[RepoUrl][id].deps
    ELSE {}

RECURSIVE DependencyClosure(_, _)
\* step 2: the packages reached from ids along dependencies
DependencyClosure(rs, ids) ==
    LET more == ids \cup UNION {DepsOf(rs, i) : i \in ids}
    IN  IF more = ids THEN ids ELSE DependencyClosure(rs, more)

RECURSIVE Deduplicate(_)
\* step 4: an action asked for twice is kept once, at its first place
Deduplicate(as) ==
    IF as = <<>> THEN <<>>
    ELSE LET front == Deduplicate(SubSeq(as, 1, Len(as) - 1))
             last  == as[Len(as)]
         IN  IF \E i \in 1..Len(front) : front[i] = last
             THEN front
             ELSE Append(front, last)

MustPrecedeUnordered(rs, x, y) == FALSE

\* step 3: x has to be placed before y: x installs a dependency of what y
\* installs, or x uninstalls a dependent of what y uninstalls
MustPrecede(rs, x, y) ==
    \/ /\ x.kind = "install" /\ y.kind = "install"
       /\ x.key.id \in DepsOf(rs, y.key.id)
    \/ /\ x.kind = "uninstall" /\ y.kind = "uninstall"
       /\ y.key.id \in DepsOf(rs, x.key.id)

RECURSIVE TopologicalSort(_, _, _)
\* step 3: the first action with nothing left to precede it is placed next;
\* when no action is free the dependencies form a cycle
TopologicalSort(rs, todo, placed) ==
    IF todo = <<>> THEN [err |-> "", plan |-> placed]
    ELSE LET free == {i \in 1..Len(todo) :
                        \A j \in 1..Len(todo) : j # i => ~MustPrecede(rs, todo[j], todo[i])}
         IN  IF free = {} THEN [err |-> "DependencyCycle", plan |-> <<>>]
             ELSE LET i == CHOOSE m \in free : \A n \in free : m <= n
                  IN  TopologicalSort(rs,
                          SubSeq(todo, 1, i - 1) \o SubSeq(todo, i + 1, Len(todo)),
                          Append(placed, todo[i]))

\* PackageTransaction::new(store, actions): the plan, or the error
PackageTransaction_new(rs, actions) ==
    LET asked     == Deduplicate(actions)
        installs  == {asked[i].key.id : i \in {j \in 1..Len(asked) : asked[j].kind = "install"}}
        removes   == {asked[i].key.id : i \in {j \in 1..Len(asked) : asked[j].kind = "uninstall"}}
        closure   == DependencyClosure(rs, installs)
        added     == SelectSeq(IdOrder, LAMBDA i : i \in closure \ installs)
        todo      == asked \o [n \in 1..Len(added) |-> PackageAction("install", PlanKey(added[n]))]
    IN  IF \E i \in installs : resolve_payload(PlanKey(i), AllPayloads, rs).err # ""
        THEN [err |-> "InvalidPlan", plan |-> <<>>]
        ELSE IF \E i \in closure : resolve_payload(PlanKey(i), AllPayloads, rs).err # ""
        THEN [err |-> "MissingDependency", plan |-> <<>>]
        ELSE IF closure \cap removes # {}
        THEN [err |-> "ConflictingActions", plan |-> <<>>]
        ELSE TopologicalSort(rs, todo, <<>>)

\* no transaction has been constructed; the fields of a transaction:
\*   state   None, Invalid, Ready, Running, Complete, Error
\*   asked   the actions given to new, plan the ordered actions, err the
\*           construction error
\*   events  the event stream so far
\*   dl      per plan step: none, pending, active (with the progress events
\*           sent), done, failed, aborted
\*   step    the plan step in progress or next to start, busy: in progress
\*   cancel  the flag the cancellation handle sets
NoTransaction ==
    [state |-> "None", err |-> "", asked |-> <<>>, plan |-> <<>>,
     events |-> <<>>, dl |-> <<>>, step |-> 1, busy |-> FALSE,
     cancel |-> FALSE]

\* ------------------------------------------------ the transaction engine
\* downloads that may run at the same time (configurable, default 1)
DownloadLimit == 2

Event(type, id, reason) == [type |-> type, id |-> id, reason |-> reason]
Emit(t, e) == [t EXCEPT !.events = Append(t.events, e)]
Download(st, sent) == [st |-> st, sent |-> sent]
ActiveDownloads(t) == {i \in 1..Len(t.dl) : t.dl[i].st = "active"}

End_still_running(t, st) == t

\* the transaction reaches a terminal state
End(t, st) == [t EXCEPT !.state = st]

NoActionInProgress_unchecked(t) == TRUE

\* installs and uninstalls run one at a time
NoActionInProgress(t) == ~t.busy

NotCancelled_unchecked(t) == TRUE

\* the cancellation flag, looked at before an action starts
NotCancelled(t) == ~t.cancel

CallbackTransactionResponse_swapped(response) ==
    [ty |-> CASE response.type = "InstallStarted" -> "DownloadComplete"
              [] response.type = "DownloadComplete" -> "InstallStarted"
              [] OTHER -> response.type,
     value |-> response]

\* From<pb::transaction_response::Value> for CallbackTransactionResponse
CallbackTransactionResponse_from(response) ==
    [ty |-> CASE response.type = "TransactionStarted" -> "TransactionStarted"
              [] response.type = "TransactionError" -> "TransactionError"
              [] response.type = "TransactionComplete" -> "TransactionComplete"
              [] response.type = "TransactionProgress" -> "TransactionProgress"
              [] response.type = "DownloadProgress" -> "DownloadProgress"
              [] response.type = "DownloadComplete" -> "DownloadComplete"
              [] response.type = "InstallStarted" -> "InstallStarted"
              [] response.type = "UninstallStarted" -> "UninstallStarted",
     value |-> response]

\* ---------------------------------------------------- the download manager
\* the bytes the payload of package a was published with, and the bodies a
\* server can send for its url
DeclaredBody == <<1, 1>>
Bodies == UNION {[1..n -> {0, 1}] : n \in 0..MaxBytes}

RECURSIVE sha256(_)
\* the digest of a byte string: distinct strings of the model have distinct
\* digests
sha256(b) ==
    IF b = <<>> THEN 1
    ELSE 2 * sha256(SubSeq(b, 1, Len(b) - 1)) + b[Len(b)]

\* installer.size and the declared hash of the payload
DeclaredPayload == [size |-> Len(DeclaredBody), hash |-> sha256(DeclaredBody)]

NoFile == [exists |-> FALSE, data |-> <<>>]
File(d) == [exists |-> TRUE, data |-> d]

Verify_unverified(f, p) == "ok"

\* the verification at completion: size, then hash
Verify(f, p) ==
    IF Len(f.data) # p.size THEN "Err:SizeMismatch"
    ELSE IF sha256(f.data) # p.hash THEN "Err:HashMismatch"
    ELSE "ok"

\* no download is in progress and the cache holds no file of the payload:
\*   st     idle or streaming, body what the server sends
\*   temp   the temporary sibling file, final the file at the cache path
NoDownload == [st |-> "idle", body |-> <<>>, temp |-> NoFile, final |-> NoFile]

\* ------------------------------------------------------------------- state
NoKey == [repo |-> "", id |-> ""]
\* the uninstall call between two file system calls: where it is (pc), its
\* key, the record it has read and the place in record.files
NoUninstall == [pc |-> "idle", key |-> NoKey, files |-> <<>>, i |-> 1]

\* the running calls of all threads into one store: how many are at each
\* place where a call takes the lock of self.repos or a pool connection
\*   status.get     at self.pool.get()
\*   status.read    holding a connection, at self.repos.read()
\*   status.both    holding a connection and a read guard
\*   uninstall.get  at self.pool.get();  uninstall.run  holding a connection
\*   install.read   at self.repos.read()
\*   install.get    holding a read guard, at self.pool.get()
\*   install.both   holding a read guard and a connection
\*   refresh.write  the map is loaded, at self.repos.write()
\* writer_first: the lock makes new readers wait while a writer waits (the
\* policy of std::sync::RwLock is that of the platform)
NoCalls ==
    [status    |-> [get |-> 0, read |-> 0, both |-> 0],
     uninstall |-> [get |-> 0, run |-> 0],
     install   |-> [read |-> 0, get |-> 0, both |-> 0],
     refresh   |-> [write |-> 0],
     writer_first |-> FALSE]

\* the rpc client of one process
\*   global   CURRENT_CANCEL_TX: 0 for None, n for the sender of stream n
\*   poisoned the mutex of CURRENT_CANCEL_TX is poisoned
\*   proc     the pahkat_rpc_process_transaction call: idle, stored (line
\*            275 done), spawned (line 299 done), and its stream n
\*   cancel   a pahkat_rpc_cancel_callback call at the lock of line 248, and
\*            whether a process_transaction call was running when it came
\*   streams  per request stream: the messages put on it in order, whether
\*            its receiver is alive, and its task: none, waiting (for
\*            client.write()), streaming, done
\*   client   the stream whose task holds the write lock of the client, or 0
\*   last     what the last cancel callback did: noop, sent, panic, and
\*            whether a transaction was in flight when it ran, and the
\*            stream whose task held the client then
NoStream == [msgs |-> <<>>, rx |-> FALSE, task |-> "none"]
NoRpc ==
    [global |-> 0, poisoned |-> FALSE,
     proc |-> [pc |-> "idle", n |-> 0],
     cancel |-> [pc |-> "idle", raced |-> FALSE],
     streams |-> [n \in 1..MaxStreams |-> NoStream],
     client |-> 0,
     last |-> [res |-> "none", raced |-> FALSE, n |-> 0, in_flight |-> FALSE,
               client |-> 0]]

\* no command of pahkat-cli has run, no uninstall is in progress
InitMore ==
    /\ cli = "none"
    /\ un = NoUninstall
    /\ db_fail_at = 0
    /\ calls = NoCalls
    /\ rpc = NoRpc

\* what a successful install stored: version, recorded paths, dependency
\* map keys, and the regular files it unpacked
NoRec == [version |-> 0, files |-> <<>>, deps |-> {}, unpacked |-> {}]
\* result: the operation, its key and return value, and for the properties:
\*   unsafe  the installed tarball had an absolute or ".." entry path
\*   after   the successful install/uninstall of the same key that came
\*           right before this operation ("none" otherwise)
\*   had     the key had a row in packages when the operation started
\*   rec     what the install built its record from and unpacked (kept
\*           through the uninstall after it)
Res(op, key, val, unsafe, after, had, rec) ==
    [op |-> op, key |-> key, val |-> val, unsafe |-> unsafe,
     after |-> after, had |-> had, rec |-> rec]
Other(op, key, val) == Res(op, key, val, FALSE, "none", FALSE, NoRec)
\* the successful operation on key that the current result reports
JustDone(key) ==
    IF result.key = key /\ result.op = "install" /\ result.val = "UpToDate"
    THEN "install"
    ELSE IF result.key = key /\ result.op = "uninstall" /\ result.val = "NotInstalled"
    THEN "uninstall"
    ELSE "none"
HasRow(key) == version(packages, to_string(key)).some

\* PrefixPackageStore::create: an empty database, <prefix>/pkg, an empty map
Init ==
    /\ repos = <<>>
    /\ cache = {}
    /\ diskFiles = {}
    /\ diskDirs = {Prefix, Prefix \o <<"pkg">>}
    /\ packages = {}
    /\ packages_files = <<>>
    /\ packages_dependencies = <<>>
    /\ result = Other("create", NoKey, "Ok")
    /\ lastOp = [k \in Keys |-> "none"]
    /\ db_writable = TRUE
    /\ guards = [t \in Threads |-> Idle]
    /\ pending = <<>>
    /\ served = [u \in ConfigUrls |-> Failed]
    /\ tx = NoTransaction
    /\ dlm = NoDownload
    /\ InitMore

Unsafe(tb) ==
    \E i \in 1..Len(tb) : tb[i].path[1] = "/" \/ \E j \in 1..Len(tb[i].path) : tb[i].path[j] = ".."

\* ------------------------------------------------------------- operations
pkg_path_exists_unchecked(url, c) == TRUE

\* pkg_path.exists() on the download-cache path of the payload url
pkg_path_exists(url, c) == url \in c

\* PrefixPackageStore::install(key) with tarball tb at the cached path
install(key, tb) ==
    LET r        == resolve_payload(key, {"TarballPackage"}, repos)
        pkg_path == package_dir(r.package)
        D0       == diskDirs \cup {SubSeq(pkg_path, 1, n) : n \in Len(Prefix)..Len(pkg_path)}
        u        == UnpackEntries(tb, pkg_path, diskFiles, D0, <<>>, {})
        record   == [id |-> RecordId, url |-> to_string(key),
                     version |-> VersionToString(r.release.version),
                     files |-> u.rec,
                     dependencies |-> DepList(r.release.deps)]
        saved    == replace_pkg(packages, packages_files, packages_dependencies, record)
        Fail(v)  == Res("install", key, v, Unsafe(tb), JustDone(key), HasRow(key), NoRec)
    IN  IF r.err # ""
        THEN /\ result' = Fail("Err:Payload")
             /\ UNCHANGED <<repos, cache, disk, db, lastOp>>
        ELSE IF r.release.payload # "TarballPackage"
        THEN /\ result' = Fail("Err:WrongPayloadType")
             /\ UNCHANGED <<repos, cache, disk, db, lastOp>>
        ELSE IF ~pkg_path_exists(PayloadUrl(r.package), cache)
        THEN /\ result' = Fail("Err:PackageNotInCache")
             /\ UNCHANGED <<repos, cache, disk, db, lastOp>>
        ELSE IF u.panic
        THEN /\ diskFiles' = u.files
             /\ diskDirs' = u.dirs
             /\ result' = Fail("panic")
             /\ UNCHANGED <<repos, cache, db, lastOp>>
        ELSE IF ~saved.ok
        THEN /\ diskFiles' = u.files
             /\ diskDirs' = u.dirs
             /\ packages' = saved.packages
             /\ packages_files' = saved.files
             /\ packages_dependencies' = saved.dependencies
             /\ result' = Res("install", key, "panic:save", Unsafe(tb),
                               JustDone(key), HasRow(key),
                               [version |-> r.release.version, files |-> u.rec,
                                deps |-> r.release.deps, unpacked |-> u.unpacked])
             /\ UNCHANGED <<repos, cache, lastOp>>
        ELSE /\ diskFiles' = u.files
             /\ diskDirs' = u.dirs
             /\ packages' = saved.packages
             /\ packages_files' = saved.files
             /\ packages_dependencies' = saved.dependencies
             /\ result' = Res("install", key, "UpToDate", Unsafe(tb),
                               JustDone(key), HasRow(key),
                               [version |-> r.release.version, files |-> u.rec,
                                deps |-> r.release.deps, unpacked |-> u.unpacked])
             /\ lastOp' = [lastOp EXCEPT ![key] = "install"]
             /\ UNCHANGED <<repos, cache>>

RECURSIVE RemoveFiles(_, _, _, _)
\* first loop of uninstall: canonicalize fails on a missing path, a
\* directory is left for the second loop, an existing file is removed
RemoveFiles(fs, pkg_path, F, D) ==
    IF fs = <<>> THEN F
    ELSE LET file == pkg_path \o StrToPath(Head(fs)) IN
         IF file \notin F \cup D THEN RemoveFiles(Tail(fs), pkg_path, F, D)
         ELSE IF file \in D THEN RemoveFiles(Tail(fs), pkg_path, F, D)
         ELSE RemoveFiles(Tail(fs), pkg_path, F \ {file}, D)

RECURSIVE RemoveDirs(_, _, _, _)
\* second loop of uninstall: a recorded directory with no entry is removed
RemoveDirs(fs, pkg_path, F, D) ==
    IF fs = <<>> THEN D
    ELSE LET file == pkg_path \o StrToPath(Head(fs)) IN
         IF file \notin D THEN RemoveDirs(Tail(fs), pkg_path, F, D)
         ELSE IF \E x \in F \cup D : Len(x) = Len(file) + 1 /\ IsPrefixOf(file, x)
         THEN RemoveDirs(Tail(fs), pkg_path, F, D)
         ELSE RemoveDirs(Tail(fs), pkg_path, F, D \ {file})

\* PrefixPackageStore::uninstall(key)
uninstall(key) ==
    LET found    == find_by_id(packages, packages_files, packages_dependencies, key)
        pkg_path == package_dir(key.id)
        F1       == RemoveFiles(found.record.files, pkg_path, diskFiles, diskDirs)
        D1       == RemoveDirs(found.record.files, pkg_path, F1, diskDirs)
        removed  == remove_pkg(packages, packages_files, packages_dependencies,
                               found.record)
        R(v)     == Res("uninstall", key, v, FALSE, JustDone(key), HasRow(key),
                        IF JustDone(key) = "install" THEN result.rec ELSE NoRec)
    IN  IF found.panic
        THEN /\ result' = R("panic")
             /\ UNCHANGED <<repos, cache, disk, db, lastOp>>
        ELSE IF ~found.found
        THEN /\ result' = R("Err:NotInstalled")
             /\ UNCHANGED <<repos, cache, disk, db, lastOp>>
        ELSE /\ diskFiles' = F1
             /\ diskDirs' = D1
             /\ packages' = removed.packages
             /\ packages_files' = removed.files
             /\ packages_dependencies' = removed.dependencies
             /\ result' = R(IF removed.ok THEN "NotInstalled" ELSE "panic:delete")
             /\ lastOp' = IF removed.ok THEN [lastOp EXCEPT ![key] = "uninstall"]
                          ELSE lastOp
             /\ UNCHANGED <<repos, cache>>

\* what status(key) returns
StatusOf(key, pk, pf, pd, rs) ==
    LET found == find_by_id(pk, pf, pd, key)
        r     == resolve_payload(key, {"TarballPackage"}, rs)
    IN  IF found.panic THEN "panic"
        ELSE IF ~found.found THEN "NotInstalled"
        ELSE IF r.err # "" THEN "Err:Payload"
        ELSE IF r.release.payload # "TarballPackage"
        THEN "Err:WrongPayloadType"
        ELSE cmp(found.record.version, r.release.version)

\* the tables after the queries of a call that only reads the database
Queried ==
    Query([packages |-> packages, files |-> packages_files,
           dependencies |-> packages_dependencies])

\* PrefixPackageStore::status(key)
status(key) ==
    /\ result' = Res("status", key,
                     StatusOf(key, packages, packages_files, packages_dependencies, repos),
                     FALSE, JustDone(key), HasRow(key), NoRec)
    /\ packages' = Queried.packages
    /\ packages_files' = Queried.files
    /\ packages_dependencies' = Queried.dependencies
    /\ UNCHANGED <<repos, cache, disk, lastOp>>

\* PrefixPackageStore::all_statuses(repo_url): crate::repo::all_statuses
\* calls status for every package of the repository
all_statuses(repo_url) ==
    LET ids == IF repo_url \in DOMAIN repos THEN DOMAIN repos[repo_url] ELSE {}
        st  == [i \in ids |-> StatusOf([repo |-> repo_url, id |-> i], packages,
                                       packages_files, packages_dependencies, repos)]
    IN  /\ result' = [Other("all_statuses", NoKey,
                            IF \E i \in ids : st[i] = "panic" THEN "panic" ELSE "Ok")
                        EXCEPT !.rec = [NoRec EXCEPT !.deps = {<<i, st[i]>> : i \in ids}]]
        /\ packages' = Queried.packages
        /\ packages_files' = Queried.files
        /\ packages_dependencies' = Queried.dependencies
        /\ UNCHANGED <<repos, cache, disk, lastOp>>

\* PrefixPackageStore::find_package_by_key: the descriptor of the key in
\* the map under the read guard
find_package_by_key(key) ==
    /\ result' = Other("find_package_by_key", key,
                       IF key.repo \in DOMAIN repos /\ key.id \in DOMAIN repos[key.repo]
                       THEN "Some" ELSE "None")
    /\ UNCHANGED <<repos, cache, disk, db, lastOp>>

\* PrefixPackageStore::find_package_by_id: the first repository of the map
\* that has a package of this id
find_package_by_id(package_id) ==
    /\ result' = Other("find_package_by_id",
                       IF \E u \in DOMAIN repos : package_id \in DOMAIN repos[u]
                       THEN [repo |-> CHOOSE u \in DOMAIN repos : package_id \in DOMAIN repos[u],
                             id |-> package_id]
                       ELSE NoKey,
                       IF \E u \in DOMAIN repos : package_id \in DOMAIN repos[u]
                       THEN "Some" ELSE "None")
    /\ UNCHANGED <<repos, cache, disk, db, lastOp>>

\* PrefixPackageStore::refresh_repos: the whole map is replaced
refresh_repos(loaded) ==
    /\ repos' = loaded
    /\ result' = Other("refresh_repos", NoKey, "Ok")
    /\ UNCHANGED <<cache, disk, db, lastOp>>

\* crate::repo::refresh_repos(&config): every configured url is loaded, a url
\* that fails to load is logged and gets no entry; the function is given the
\* configuration only
repo_refresh_repos(sv) ==
    [u \in {x \in ConfigUrls : sv[x].ok} |-> sv[u].index]

\* PrefixPackageStore::download(key): the payload lands in the cache
download(key) ==
    LET r == resolve_payload(key, AllPayloads, repos) IN
    IF r.err # ""
    THEN /\ result' = Other("download", key, "Err:Payload")
         /\ UNCHANGED <<repos, cache, disk, db, lastOp>>
    ELSE /\ cache' = cache \cup {PayloadUrl(r.package)}
         /\ result' = Other("download", key, "Ok")
         /\ UNCHANGED <<repos, disk, db, lastOp>>

\* PrefixPackageStore::import(key): the installer file is copied to the cache
import(key) ==
    LET r == resolve_payload(key, AllPayloads, repos) IN
    IF r.err # ""
    THEN /\ result' = Other("import", key, "Err:Payload")
         /\ UNCHANGED <<repos, cache, disk, db, lastOp>>
    ELSE /\ cache' = cache \cup {PayloadUrl(r.package)}
         /\ result' = Other("import", key, "Ok")
         /\ UNCHANGED <<repos, disk, db, lastOp>>

\* PrefixPackageStore::clear_cache
clear_cache ==
    /\ cache' = {}
    /\ result' = Other("clear_cache", NoKey, "Ok")
    /\ UNCHANGED <<repos, disk, db, lastOp>>

\* an external actor removes one file below a package directory
Tamper(key, f) ==
    /\ f \in diskFiles
    /\ IsPrefixOf(package_dir(key.id), f)
    /\ diskFiles' = diskFiles \ {f}
    /\ result' = Other("tamper", key, "Ok")
    /\ UNCHANGED <<repos, cache, diskDirs, db, lastOp>>

\* ---------------------------------------------------------- specifications
\* Spec: one package, every tarball and every snapshot of it
KeyA == [repo |-> RepoUrl, id |-> "a"]
SnapshotsOfA == {s \in Snapshots : \A u \in DOMAIN s : DOMAIN s[u] \subseteq {"a"}}

Next ==
    \/ \E tb \in Tarballs : install(KeyA, tb) /\ UNCHANGED beyond_store
    \/ uninstall(KeyA) /\ UNCHANGED beyond_store
    \/ status(KeyA) /\ UNCHANGED beyond_store
    \/ \E s \in SnapshotsOfA : refresh_repos(s) /\ UNCHANGED beyond_store
    \/ download(KeyA) /\ UNCHANGED beyond_store
    \/ clear_cache /\ UNCHANGED beyond_store
    \/ \E f \in diskFiles : Tamper(KeyA, f) /\ UNCHANGED beyond_store

Spec == Init /\ [][Next]_vars

\* SpecTwo: two packages of one repository, installed from tarballs of at
\* most one entry that install accepts, with no dependencies
TwoTarballs == {tb \in Tarballs : Len(tb) <= 1 /\ \A i \in 1..Len(tb) : tb[i].path = <<"/", "p", "f">>}
TwoSnapshots ==
    {s \in Snapshots : \A u \in DOMAIN s : /\ DOMAIN s[u] = PackageIds
                                            /\ \A i \in PackageIds :
                                                 /\ s[u][i].payload = "TarballPackage"
                                                 /\ s[u][i].deps = {}}

NextTwo ==
    \/ \E k \in Keys, tb \in TwoTarballs : install(k, tb) /\ UNCHANGED beyond_store
    \/ \E k \in Keys : uninstall(k) /\ UNCHANGED beyond_store
    \/ \E k \in Keys : status(k) /\ UNCHANGED beyond_store
    \/ \E s \in TwoSnapshots : refresh_repos(s) /\ UNCHANGED beyond_store
    \/ \E k \in Keys : download(k) /\ UNCHANGED beyond_store
    \/ clear_cache /\ UNCHANGED beyond_store
    \/ \E k \in Keys, f \in diskFiles : Tamper(k, f) /\ UNCHANGED beyond_store

SpecTwo == Init /\ [][NextTwo]_vars

\* SpecDb: one package whose database file can stop accepting writes (disk
\* full, file locked by another process) and accept them again
DbFault(w) ==
    /\ db_writable # w
    /\ db_writable' = w
    /\ result' = Other("db_fault", NoKey, "Ok")
    /\ UNCHANGED <<repos, cache, disk, db, lastOp, locks, served, tx, dlm, outside>>

DbSnapshots == {s \in SnapshotsOfA : \A u \in DOMAIN s : \A i \in DOMAIN s[u] : s[u][i].deps = {}}

NextDb ==
    \/ \E tb \in Tarballs : install(KeyA, tb) /\ UNCHANGED beyond_store
    \/ uninstall(KeyA) /\ UNCHANGED beyond_store
    \/ status(KeyA) /\ UNCHANGED beyond_store
    \/ \E s \in DbSnapshots : refresh_repos(s) /\ UNCHANGED beyond_store
    \/ download(KeyA) /\ UNCHANGED beyond_store
    \/ \E w \in BOOLEAN : DbFault(w)

SpecDb == Init /\ [][NextDb]_vars

\* SpecConc: the calls of several threads into one store, split where they
\* take and drop the lock of self.repos
ReadingOps == {"install", "status", "download", "import"}

\* self.repos.read(): the guard lives to the end of the call
AcquireRead(t, op, key) ==
    /\ guards[t] = Idle
    /\ guards' = [guards EXCEPT ![t] = [op |-> op, key |-> key]]
    /\ UNCHANGED <<store, db_writable, pending, served, tx, dlm, outside>>

\* the body of the call under the guard, and the drop of the guard at its end
Finish(t, tb) ==
    /\ guards[t] # Idle
    /\ CASE guards[t].op = "install"  -> install(guards[t].key, tb)
         [] guards[t].op = "status"   -> status(guards[t].key)
         [] guards[t].op = "download" -> download(guards[t].key)
         [] guards[t].op = "import"   -> import(guards[t].key)
    /\ guards' = [guards EXCEPT ![t] = Idle]
    /\ UNCHANGED <<db_writable, pending, served, tx, dlm, outside>>

\* refresh_repos, first half: crate::repo::refresh_repos(&self.config) is
\* evaluated before the lock is asked for
Load(loaded) ==
    /\ pending = <<>>
    /\ pending' = <<loaded>>
    /\ UNCHANGED <<store, db_writable, guards, served, tx, dlm, outside>>

write_lock_ignored(g) == TRUE

\* self.repos.write(): granted when no read guard is held
write_lock_free(g) == \A t \in Threads : g[t] = Idle

\* refresh_repos, second half: the assignment through the write guard
Swap ==
    /\ pending # <<>>
    /\ write_lock_free(guards)
    /\ refresh_repos(pending[1])
    /\ pending' = <<>>
    /\ UNCHANGED <<db_writable, guards, served, tx, dlm, outside>>

ConcSnapshots ==
    {s \in DbSnapshots : \A u \in DOMAIN s : \A i \in DOMAIN s[u] :
        s[u][i].version = 1 /\ s[u][i].payload = "TarballPackage"}

NextConc ==
    \/ \E t \in Threads, op \in ReadingOps : AcquireRead(t, op, KeyA)
    \/ \E t \in Threads, tb \in TwoTarballs : Finish(t, tb)
    \/ \E s \in ConcSnapshots : Load(s)
    \/ Swap

SpecConc == Init /\ [][NextConc]_vars

\* SpecRefresh: two configured urls whose servers change what they serve
Serve(u, x) ==
    /\ served[u] # x
    /\ served' = [served EXCEPT ![u] = x]
    /\ result' = Other("serve", NoKey, "Ok")
    /\ UNCHANGED <<repos, cache, disk, db, lastOp, db_writable, locks, tx, dlm, outside>>

NextRefresh ==
    \/ \E u \in ConfigUrls, x \in {Loaded(i) : i \in Indexes} \cup {Failed} : Serve(u, x)
    \/ refresh_repos(repo_refresh_repos(served)) /\ UNCHANGED beyond_store
    \/ status(KeyA) /\ UNCHANGED beyond_store
    \/ download(KeyA) /\ UNCHANGED beyond_store

SpecRefresh == Init /\ [][NextRefresh]_vars

\* SpecPlan: a transaction is constructed from a list of actions over a
\* repository whose packages depend on each other
PlanSnapshots ==
    { [u \in {RepoUrl} |-> idx] :
        idx \in UNION {[ids -> [version : {1}, payload : {"TarballPackage"},
                               deps : SUBSET PlanIds]] : ids \in SUBSET PlanIds} }

InitPlan ==
    /\ repos \in {s \in PlanSnapshots :
                     \A i \in DOMAIN s[RepoUrl] : i \notin s[RepoUrl][i].deps}
    /\ cache = {}
    /\ diskFiles = {}
    /\ diskDirs = {Prefix, Prefix \o <<"pkg">>}
    /\ packages = {}
    /\ packages_files = <<>>
    /\ packages_dependencies = <<>>
    /\ result = Other("refresh_repos", NoKey, "Ok")
    /\ lastOp = [k \in Keys |-> "none"]
    /\ db_writable = TRUE
    /\ guards = [t \in Threads |-> Idle]
    /\ pending = <<>>
    /\ served = [u \in ConfigUrls |-> Failed]
    /\ tx = NoTransaction
    /\ dlm = NoDownload
    /\ InitMore

\* the transaction value PackageTransaction::new(store, actions) makes
Constructed(t, rs, actions) ==
    LET p == PackageTransaction_new(rs, actions) IN
    [t EXCEPT !.state = IF p.err = "" THEN "Ready" ELSE "Invalid",
              !.err = p.err, !.asked = actions, !.plan = p.plan]

\* pahkat-cli install: PackageTransaction::new(store, actions)
New(actions) ==
    /\ tx.state = "None"
    /\ tx' = Constructed(tx, repos, actions)
    /\ UNCHANGED <<store, db_writable, locks, served, dlm, outside>>

\* the transaction value is dropped
Drop ==
    /\ tx.state \in {"Invalid", "Ready", "Complete", "Error"}
    /\ tx' = NoTransaction
    /\ UNCHANGED <<store, db_writable, locks, served, dlm, outside>>

NextPlan ==
    \/ \E actions \in ActionLists : New(actions)
    \/ Drop

SpecPlan == InitPlan /\ [][NextPlan]_vars

\* SpecTx: transactions over two packages without dependencies are
\* constructed, executed and cancelled
\* PackageTransaction::process: the stream opens with TransactionStarted
Processing(t) ==
    [t EXCEPT
       !.state = "Running",
       !.events = <<Event("TransactionStarted", "", "")>>,
       !.dl = [i \in 1..Len(t.plan) |->
                 IF t.plan[i].kind = "install"
                 THEN Download("pending", 0) ELSE Download("none", 0)],
       !.step = 1, !.busy = FALSE, !.cancel = FALSE]

process ==
    /\ tx.state = "Ready"
    /\ tx' = Processing(tx)
    /\ UNCHANGED <<store, db_writable, locks, served, dlm, outside>>

\* the next download of the plan starts when the limit allows it
StartDownload(i) ==
    /\ tx.state = "Running" /\ ~tx.cancel
    /\ i \in 1..Len(tx.dl) /\ tx.dl[i].st = "pending"
    /\ \A j \in 1..(i - 1) : tx.dl[j].st # "pending"
    /\ \A j \in 1..Len(tx.dl) : tx.dl[j].st # "failed"
    /\ Cardinality(ActiveDownloads(tx)) < DownloadLimit
    /\ tx' = [tx EXCEPT !.dl[i] = Download("active", 0)]
    /\ UNCHANGED <<store, db_writable, locks, served, dlm, outside>>

\* the progress callback of a running download: it sends DownloadProgress,
\* or sees the cancellation flag and aborts the download
DownloadProgress(i) ==
    /\ tx.state = "Running"
    /\ i \in 1..Len(tx.dl) /\ tx.dl[i].st = "active"
    /\ IF tx.cancel
       THEN tx' = [tx EXCEPT !.dl[i] = Download("aborted", tx.dl[i].sent)]
       ELSE /\ tx.dl[i].sent < MaxProgress
            /\ tx' = [Emit(tx, Event("DownloadProgress", tx.plan[i].key.id, ""))
                        EXCEPT !.dl[i] = Download("active", tx.dl[i].sent + 1)]
    /\ UNCHANGED <<store, db_writable, locks, served, dlm, outside>>

\* a download ends well: store.download has put the payload in the cache
DownloadComplete(i) ==
    /\ tx.state = "Running"
    /\ i \in 1..Len(tx.dl) /\ tx.dl[i].st = "active"
    /\ download(tx.plan[i].key)
    /\ tx' = [Emit(tx, Event("DownloadComplete", tx.plan[i].key.id, ""))
                EXCEPT !.dl[i] = Download("done", tx.dl[i].sent)]
    /\ UNCHANGED <<db_writable, locks, served, dlm, outside>>

\* a download ends with an error (network, size or hash mismatch)
DownloadFailed(i) ==
    /\ tx.state = "Running"
    /\ i \in 1..Len(tx.dl) /\ tx.dl[i].st = "active"
    /\ tx' = [tx EXCEPT !.dl[i] = Download("failed", tx.dl[i].sent)]
    /\ UNCHANGED <<store, db_writable, locks, served, dlm, outside>>

\* between plan steps: the next action starts, an install once its own
\* download is done
StartAction ==
    /\ tx.state = "Running" /\ NoActionInProgress(tx) /\ NotCancelled(tx)
    /\ tx.step <= Len(tx.plan)
    /\ \A j \in 1..Len(tx.dl) : tx.dl[j].st # "failed"
    /\ tx.plan[tx.step].kind = "install" => tx.dl[tx.step].st = "done"
    /\ tx' = [Emit(tx, Event(IF tx.plan[tx.step].kind = "install"
                              THEN "InstallStarted" ELSE "UninstallStarted",
                              tx.plan[tx.step].key.id, ""))
                EXCEPT !.busy = TRUE]
    /\ UNCHANGED <<store, db_writable, locks, served, dlm, outside>>

\* the action in progress ends: store.install or store.uninstall has run
FinishAction(tb) ==
    /\ tx.state = "Running" /\ tx.busy
    /\ LET a == tx.plan[tx.step] IN
       /\ IF a.kind = "install" THEN install(a.key, tb) ELSE uninstall(a.key)
       /\ tx' = IF result'.val \in {"UpToDate", "NotInstalled"}
                THEN [Emit(tx, Event("TransactionProgress", a.key.id, ""))
                        EXCEPT !.step = tx.step + 1, !.busy = FALSE]
                ELSE [End(Emit(tx, Event("TransactionError", a.key.id,
                                         IF tx.cancel THEN "Cancelled" ELSE result'.val)),
                          "Error")
                        EXCEPT !.busy = FALSE]
    /\ UNCHANGED <<db_writable, locks, served, dlm, outside>>

\* between plan steps: a failed download or the cancellation flag ends the
\* transaction
Abort ==
    /\ tx.state = "Running" /\ ~tx.busy
    /\ tx.cancel \/ \E j \in 1..Len(tx.dl) : tx.dl[j].st = "failed"
    /\ tx' = End(Emit(tx, Event("TransactionError", "",
                                IF tx.cancel THEN "Cancelled" ELSE "Download")),
                 "Error")
    /\ UNCHANGED <<store, db_writable, locks, served, dlm, outside>>

\* every action of the plan is done
Complete ==
    /\ tx.state = "Running" /\ ~tx.busy /\ ~tx.cancel
    /\ tx.step > Len(tx.plan)
    /\ tx' = End(Emit(tx, Event("TransactionComplete", "", "")), "Complete")
    /\ UNCHANGED <<store, db_writable, locks, served, dlm, outside>>

\* the cancellation handle is signalled
Cancel ==
    /\ tx.state = "Running" /\ ~tx.cancel
    /\ tx' = [tx EXCEPT !.cancel = TRUE]
    /\ UNCHANGED <<store, db_writable, locks, served, dlm, outside>>

TxActionLists ==
    {as \in ActionLists : Len(as) <= 2 /\ \A i \in 1..Len(as) : as[i].key \in Keys}
TxTarball == <<[path |-> <<"/", "p", "f">>, kind |-> "file"]>>

InitTx ==
    /\ repos \in {s \in TwoSnapshots : s # <<>> /\ \A i \in PackageIds : s[RepoUrl][i].version = 1}
    /\ cache = {}
    /\ diskFiles = {}
    /\ diskDirs = {Prefix, Prefix \o <<"pkg">>}
    /\ packages = {}
    /\ packages_files = <<>>
    /\ packages_dependencies = <<>>
    /\ result = Other("refresh_repos", NoKey, "Ok")
    /\ lastOp = [k \in Keys |-> "none"]
    /\ db_writable = TRUE
    /\ guards = [t \in Threads |-> Idle]
    /\ pending = <<>>
    /\ served = [u \in ConfigUrls |-> Failed]
    /\ tx = NoTransaction
    /\ dlm = NoDownload
    /\ InitMore

\* the tasks of a transaction that is being processed
EngineRun ==
    \/ \E i \in 1..Len(tx.plan) : StartDownload(i)
    \/ \E i \in 1..Len(tx.plan) : DownloadProgress(i)
    \/ \E i \in 1..Len(tx.plan) : DownloadComplete(i)
    \/ \E i \in 1..Len(tx.plan) : DownloadFailed(i)
    \/ StartAction
    \/ FinishAction(TxTarball)
    \/ Abort
    \/ Complete

EngineStep ==
    \/ process
    \/ EngineRun

NextTx ==
    \/ \E actions \in TxActionLists : New(actions)
    \/ Drop
    \/ EngineStep
    \/ Cancel

SpecTx == InitTx /\ [][NextTx]_vars

\* SpecTxFair: one transaction on a new store; the executor keeps running
\* the tasks of the transaction, and every download ends, by itself or by
\* the cancellation flag
NextTxOnce ==
    \/ \E actions \in TxActionLists : New(actions)
    \/ EngineStep
    \/ Cancel

SpecTxFair == InitTx /\ [][NextTxOnce]_vars /\ WF_vars(EngineStep)

\* SpecDownload: downloads of the payload of package a from a server that
\* sends any body, with a progress callback that may ask to cancel, and
\* installs from the cache
\* download(key): a file at the cache path that matches is returned at
\* once, otherwise the url is streamed into a temporary sibling file
BeginDownload(key, body) ==
    /\ dlm.st = "idle"
    /\ resolve_payload(key, AllPayloads, repos).err = ""
    /\ IF dlm.final.exists /\ Verify(dlm.final, DeclaredPayload) = "ok"
       THEN download(key) /\ UNCHANGED dlm
       ELSE /\ dlm' = [dlm EXCEPT !.st = "streaming", !.body = body, !.temp = File(<<>>)]
            /\ result' = Other("download", key, "streaming")
            /\ UNCHANGED <<repos, cache, disk, db, lastOp>>
    /\ UNCHANGED <<db_writable, locks, served, tx, outside>>

\* the end of a download with an error: the temporary file is removed
FailDownload(key, err) ==
    /\ dlm' = [dlm EXCEPT !.st = "idle", !.temp = NoFile]
    /\ result' = Other("download", key, err)
    /\ UNCHANGED <<repos, cache, disk, db, lastOp>>

\* progress_fn is called, and the next bytes are written unless it asks
\* to cancel
StreamChunk(key, continue) ==
    /\ dlm.st = "streaming"
    /\ Len(dlm.temp.data) < Len(dlm.body)
    /\ IF ~continue
       THEN FailDownload(key, "Err:Cancelled")
       ELSE /\ dlm' = [dlm EXCEPT !.temp =
                         File(Append(dlm.temp.data, dlm.body[Len(dlm.temp.data) + 1]))]
            /\ UNCHANGED store
    /\ UNCHANGED <<db_writable, locks, served, tx, outside>>

\* the body has ended: progress_fn is called, the file is verified and
\* renamed to the cache path
EndDownload(key, continue) ==
    /\ dlm.st = "streaming"
    /\ dlm.temp.data = dlm.body
    /\ IF ~continue
       THEN FailDownload(key, "Err:Cancelled")
       ELSE IF Verify(dlm.temp, DeclaredPayload) # "ok"
       THEN FailDownload(key, Verify(dlm.temp, DeclaredPayload))
       ELSE /\ download(key)
            /\ dlm' = [dlm EXCEPT !.st = "idle", !.temp = NoFile, !.final = dlm.temp]
    /\ UNCHANGED <<db_writable, locks, served, tx, outside>>

\* clear_cache with no download in progress
ClearDownloads ==
    /\ dlm.st = "idle"
    /\ clear_cache
    /\ dlm' = NoDownload
    /\ UNCHANGED <<db_writable, locks, served, tx, outside>>

NextDownload ==
    \/ \E body \in Bodies : BeginDownload(KeyA, body)
    \/ \E continue \in BOOLEAN : StreamChunk(KeyA, continue)
    \/ \E continue \in BOOLEAN : EndDownload(KeyA, continue)
    \/ ClearDownloads
    \/ \E tb \in TwoTarballs : install(KeyA, tb) /\ UNCHANGED beyond_store
    \/ uninstall(KeyA) /\ UNCHANGED beyond_store

SpecDownload == InitTx /\ [][NextDownload]_vars

\* SpecResolve: the resolver applied to every descriptor of at most two
\* releases with at most two targets each
TargetLists == UNION {[1..n -> Targets] : n \in 0..2}
ResolveReleases == [version : 1..MaxVersion, channel : Channels, targets : TargetLists]
Descriptors == {[releases |-> rels] : rels \in UNION {[1..n -> ResolveReleases] : n \in 0..2}}
ResolveSnapshots ==
    {<<>>, [u \in {RepoUrl} |-> <<>>]}
        \cup {[u \in {RepoUrl} |-> [i \in {"a"} |-> d]] : d \in Descriptors}
Queries == {ReleaseQuery(c, p) : c \in Channels, p \in {{"TarballPackage"}, AllPayloads}}

InitResolve ==
    /\ repos \in ResolveSnapshots
    /\ cache = {}
    /\ diskFiles = {}
    /\ diskDirs = {Prefix, Prefix \o <<"pkg">>}
    /\ packages = {}
    /\ packages_files = <<>>
    /\ packages_dependencies = <<>>
    /\ result = Other("refresh_repos", NoKey, "Ok")
    /\ lastOp = [k \in Keys |-> "none"]
    /\ db_writable = TRUE
    /\ guards = [t \in Threads |-> Idle]
    /\ pending = <<>>
    /\ served = [u \in ConfigUrls |-> Failed]
    /\ tx = NoTransaction
    /\ dlm = NoDownload
    /\ InitMore

\* the first lines of install, status, download and import: the query of
\* the key is resolved against the map
Resolve(key, q) ==
    /\ result.op # "resolve"
    /\ result' = [op |-> "resolve", key |-> key, query |-> q,
                  val |-> resolve(key, q, repos)]
    /\ UNCHANGED <<repos, cache, disk, db, lastOp, beyond_store>>

NextResolve == \E q \in Queries : Resolve(KeyA, q)

SpecResolve == InitResolve /\ [][NextResolve]_vars

\* SpecCli: the install command of pahkat-cli on a new store
\* install.rs 56-63: the transaction is constructed, a plan error is
\* returned by ?, and process() hands out the canceler and the stream
CliInstall(actions) ==
    /\ cli = "none" /\ tx.state = "None"
    /\ LET t == Constructed(tx, repos, actions) IN
       IF t.state = "Invalid"
       THEN tx' = t /\ cli' = "Err"
       ELSE tx' = Processing(t) /\ cli' = "awaiting"
    /\ UNCHANGED <<store, db_writable, locks, served, dlm, un, db_fail_at, calls, rpc>>

\* install.rs 65-75: the first item of the stream (or its end) is awaited,
\* nothing is done with it, and Ok(()) is returned; the canceler was never
\* signalled
CliReturn ==
    /\ cli = "awaiting"
    /\ tx.events # <<>> \/ tx.state \in {"Complete", "Error"}
    /\ cli' = "Ok"
    /\ UNCHANGED <<store, db_writable, locks, served, tx, dlm, un, db_fail_at, calls, rpc>>

NextCli ==
    \/ \E actions \in TxActionLists : CliInstall(actions)
    \/ EngineRun
    \/ CliReturn

SpecCli == InitTx /\ [][NextCli]_vars

\* SpecRace: uninstall one file system call at a time, next to an external
\* actor that removes files and directories below the package directory
Children(file, F, D) == {x \in F \cup D : Len(x) = Len(file) + 1 /\ IsPrefixOf(file, x)}
UnFile == package_dir(un.key.id) \o StrToPath(un.files[un.i])
UnRes(v) == Res("uninstall", un.key, v, FALSE, "none", TRUE, NoRec)

\* uninstall, lines 232-236: the record is read
UnBegin(key) ==
    /\ un.pc = "idle"
    /\ LET found == find_by_id(packages, packages_files, packages_dependencies, key) IN
       IF found.panic \/ ~found.found
       THEN /\ result' = Res("uninstall", key,
                             IF found.panic THEN "panic" ELSE "Err:NotInstalled",
                             FALSE, "none", HasRow(key), NoRec)
            /\ UNCHANGED un
       ELSE /\ un' = [pc |-> "files", key |-> key, files |-> found.record.files, i |-> 1]
            /\ UNCHANGED result
    /\ UNCHANGED <<repos, cache, disk, db, lastOp, db_writable, locks, served, tx, dlm, cli, db_fail_at, calls, rpc>>

\* first loop, lines 239-249: canonicalize, is_dir and exists of one path
UnCheckFile ==
    /\ un.pc = "files"
    /\ un' = IF un.i > Len(un.files) THEN [un EXCEPT !.pc = "dirs", !.i = 1]
             ELSE IF UnFile \in diskFiles THEN [un EXCEPT !.pc = "remove_file"]
             ELSE [un EXCEPT !.i = un.i + 1]
    /\ UNCHANGED <<store, db_writable, locks, served, tx, dlm, cli, db_fail_at, calls, rpc>>

\* first loop, line 250: remove_file(file).unwrap()
UnRemoveFile ==
    /\ un.pc = "remove_file"
    /\ IF UnFile \in diskFiles
       THEN /\ diskFiles' = diskFiles \ {UnFile}
            /\ un' = [un EXCEPT !.pc = "files", !.i = un.i + 1]
            /\ UNCHANGED result
       ELSE /\ result' = UnRes("panic:remove_file")
            /\ un' = NoUninstall
            /\ UNCHANGED diskFiles
    /\ UNCHANGED <<repos, cache, diskDirs, db, lastOp, db_writable, locks, served, tx, dlm, cli, db_fail_at, calls, rpc>>

\* second loop, lines 254-262: canonicalize and is_dir of one path
UnCheckDir ==
    /\ un.pc = "dirs"
    /\ un' = IF un.i > Len(un.files) THEN [un EXCEPT !.pc = "delete"]
             ELSE IF UnFile \in diskDirs THEN [un EXCEPT !.pc = "read_dir"]
             ELSE [un EXCEPT !.i = un.i + 1]
    /\ UNCHANGED <<store, db_writable, locks, served, tx, dlm, cli, db_fail_at, calls, rpc>>

\* second loop, lines 264-265: read_dir(&file).unwrap() and the count
UnReadDir ==
    /\ un.pc = "read_dir"
    /\ IF UnFile \notin diskDirs
       THEN /\ result' = UnRes("panic:read_dir")
            /\ un' = NoUninstall
       ELSE /\ un' = IF Children(UnFile, diskFiles, diskDirs) = {}
                     THEN [un EXCEPT !.pc = "remove_dir"]
                     ELSE [un EXCEPT !.pc = "dirs", !.i = un.i + 1]
            /\ UNCHANGED result
    /\ UNCHANGED <<repos, cache, disk, db, lastOp, db_writable, locks, served, tx, dlm, cli, db_fail_at, calls, rpc>>

\* second loop, line 266: remove_dir(&file).unwrap()
UnRemoveDir ==
    /\ un.pc = "remove_dir"
    /\ IF UnFile \in diskDirs /\ Children(UnFile, diskFiles, diskDirs) = {}
       THEN /\ diskDirs' = diskDirs \ {UnFile}
            /\ un' = [un EXCEPT !.pc = "dirs", !.i = un.i + 1]
            /\ UNCHANGED result
       ELSE /\ result' = UnRes("panic:remove_dir")
            /\ un' = NoUninstall
            /\ UNCHANGED diskDirs
    /\ UNCHANGED <<repos, cache, diskFiles, db, lastOp, db_writable, locks, served, tx, dlm, cli, db_fail_at, calls, rpc>>

\* lines 270-272: record.delete(&mut conn).unwrap() and the Ok
UnDelete ==
    /\ un.pc = "delete"
    /\ LET removed == remove_pkg(packages, packages_files, packages_dependencies,
                                 [id |-> RecordId]) IN
       /\ packages' = removed.packages
       /\ packages_files' = removed.files
       /\ packages_dependencies' = removed.dependencies
       /\ result' = UnRes(IF removed.ok THEN "NotInstalled" ELSE "panic:delete")
       /\ lastOp' = IF removed.ok THEN [lastOp EXCEPT ![un.key] = "uninstall"]
                    ELSE lastOp
    /\ un' = NoUninstall
    /\ UNCHANGED <<repos, cache, disk, db_writable, locks, served, tx, dlm, cli, db_fail_at, calls, rpc>>

\* the external actor removes a file, or a directory with what is below it
ExternalRemove(key, x) ==
    /\ x \in diskFiles \cup diskDirs
    /\ IsPrefixOf(package_dir(key.id), x) /\ x # package_dir(key.id)
    /\ diskFiles' = {f \in diskFiles : ~IsPrefixOf(x, f)}
    /\ diskDirs' = {d \in diskDirs : ~IsPrefixOf(x, d)}
    /\ UNCHANGED <<repos, cache, db, result, lastOp, beyond_store>>

NextRace ==
    \/ download(KeyA) /\ un.pc = "idle" /\ UNCHANGED beyond_store
    \/ \E tb \in NestedTarballs : install(KeyA, tb) /\ un.pc = "idle" /\ UNCHANGED beyond_store
    \/ UnBegin(KeyA)
    \/ UnCheckFile
    \/ UnRemoveFile
    \/ UnCheckDir
    \/ UnReadDir
    \/ UnRemoveDir
    \/ UnDelete
    \/ \E x \in diskFiles \cup diskDirs : ExternalRemove(KeyA, x)

SpecRace == InitTx /\ [][NextRace]_vars

\* SpecNested: two packages installed from tarballs whose recorded paths
\* are directories and files present below the package directory
NextNested ==
    \/ \E k \in Keys : download(k) /\ UNCHANGED beyond_store
    \/ \E k \in Keys, tb \in NestedTarballs : install(k, tb) /\ UNCHANGED beyond_store
    \/ \E k \in Keys : uninstall(k) /\ UNCHANGED beyond_store

SpecNested == InitTx /\ [][NextNested]_vars

\* SpecAtomic: one package whose database writes can fail at any statement
StatementFault(n) ==
    /\ db_fail_at # n
    /\ db_fail_at' = n
    /\ result' = Other("db_fault", NoKey, "Ok")
    /\ UNCHANGED <<repos, cache, disk, db, lastOp, db_writable, locks, served, tx, dlm,
                   cli, un, calls, rpc>>

AtomicTarballs == {<<>>, TxTarball, TwoFiles}

NextAtomic ==
    \/ \E tb \in AtomicTarballs : install(KeyA, tb) /\ UNCHANGED beyond_store
    \/ uninstall(KeyA) /\ UNCHANGED beyond_store
    \/ \E s \in SnapshotsOfA : refresh_repos(s) /\ UNCHANGED beyond_store
    \/ download(KeyA) /\ UNCHANGED beyond_store
    \/ \E n \in 0..MaxStatements : StatementFault(n)

SpecAtomic == Init /\ [][NextAtomic]_vars

\* SpecPool: the calls of MaxCalls threads into one store, split where they
\* take the lock of self.repos and a connection of the pool
\* make_pool: max_size(4)
PoolSize == 4
Running(c) ==
    c.status.get + c.status.read + c.status.both + c.uninstall.get + c.uninstall.run
        + c.install.read + c.install.get + c.install.both + c.refresh.write
ConnectionsInUse(c) == c.status.read + c.status.both + c.uninstall.run + c.install.both
ReadGuards(c) == c.status.both + c.install.get + c.install.both
\* pool.get() waits while every connection is in use
PoolExhausted(c) == ConnectionsInUse(c) >= PoolSize
\* repos.read() waits, with writer_first, while a writer waits (the write
\* guard itself is held within one step only)
ReadBlocked(c) == c.writer_first /\ c.refresh.write > 0
\* repos.write() waits while a read guard is held
WriteBlocked(c) == ReadGuards(c) > 0

\* a thread calls status, uninstall, install or refresh_repos
Call(op) ==
    /\ Running(calls) < MaxCalls
    /\ calls' = CASE op = "status"    -> [calls EXCEPT !.status.get = @ + 1]
                  [] op = "uninstall" -> [calls EXCEPT !.uninstall.get = @ + 1]
                  [] op = "install"   -> [calls EXCEPT !.install.read = @ + 1]
                  [] op = "refresh_repos" -> [calls EXCEPT !.refresh.write = @ + 1]
    /\ UNCHANGED <<store, db_writable, locks, served, tx, dlm, cli, un, db_fail_at, rpc>>

\* status, lines 276-280: the connection is taken and the record read; with
\* no record the call returns
StatusGet(key) ==
    /\ calls.status.get > 0 /\ ~PoolExhausted(calls)
    /\ IF HasRow(key)
       THEN /\ calls' = [calls EXCEPT !.status.get = @ - 1, !.status.read = @ + 1]
            /\ UNCHANGED store
       ELSE /\ calls' = [calls EXCEPT !.status.get = @ - 1]
            /\ status(key)
    /\ UNCHANGED <<db_writable, locks, served, tx, dlm, cli, un, db_fail_at, rpc>>

\* status, line 283: the read guard is taken
StatusRead ==
    /\ calls.status.read > 0 /\ ~ReadBlocked(calls)
    /\ calls' = [calls EXCEPT !.status.read = @ - 1, !.status.both = @ + 1]
    /\ UNCHANGED <<store, db_writable, locks, served, tx, dlm, cli, un, db_fail_at, rpc>>

\* status, lines 285-297: the rest of the call; guard and connection drop
StatusEnd(key) ==
    /\ calls.status.both > 0
    /\ calls' = [calls EXCEPT !.status.both = @ - 1]
    /\ status(key)
    /\ UNCHANGED <<db_writable, locks, served, tx, dlm, cli, un, db_fail_at, rpc>>

\* uninstall, line 232: the connection is taken
UninstallGet ==
    /\ calls.uninstall.get > 0 /\ ~PoolExhausted(calls)
    /\ calls' = [calls EXCEPT !.uninstall.get = @ - 1, !.uninstall.run = @ + 1]
    /\ UNCHANGED <<store, db_writable, locks, served, tx, dlm, cli, un, db_fail_at, rpc>>

\* uninstall, lines 233-272: the rest of the call; the connection drops
UninstallEnd(key) ==
    /\ calls.uninstall.run > 0
    /\ calls' = [calls EXCEPT !.uninstall.run = @ - 1]
    /\ uninstall(key)
    /\ UNCHANGED <<db_writable, locks, served, tx, dlm, cli, un, db_fail_at, rpc>>

\* install, lines 165-182: the read guard is taken; an install that cannot
\* resolve or finds no payload returns before it asks for a connection
InstallRead(key, tb) ==
    /\ calls.install.read > 0 /\ ~ReadBlocked(calls)
    /\ LET r == resolve_payload(key, {"TarballPackage"}, repos) IN
       IF r.err = "" /\ r.release.payload = "TarballPackage"
                     /\ pkg_path_exists(PayloadUrl(r.package), cache)
       THEN /\ calls' = [calls EXCEPT !.install.read = @ - 1, !.install.get = @ + 1]
            /\ UNCHANGED store
       ELSE /\ calls' = [calls EXCEPT !.install.read = @ - 1]
            /\ install(key, tb)
    /\ UNCHANGED <<db_writable, locks, served, tx, dlm, cli, un, db_fail_at, rpc>>

\* install, line 220: the connection is taken
InstallGet ==
    /\ calls.install.get > 0 /\ ~PoolExhausted(calls)
    /\ calls' = [calls EXCEPT !.install.get = @ - 1, !.install.both = @ + 1]
    /\ UNCHANGED <<store, db_writable, locks, served, tx, dlm, cli, un, db_fail_at, rpc>>

\* install, lines 221-224: the record is saved; connection and guard drop
InstallEnd(key, tb) ==
    /\ calls.install.both > 0
    /\ calls' = [calls EXCEPT !.install.both = @ - 1]
    /\ install(key, tb)
    /\ UNCHANGED <<db_writable, locks, served, tx, dlm, cli, un, db_fail_at, rpc>>

\* refresh_repos, line 318: the write guard is taken, the loaded map is
\* stored and the guard drops
RefreshWrite(loaded) ==
    /\ calls.refresh.write > 0 /\ ~WriteBlocked(calls)
    /\ calls' = [calls EXCEPT !.refresh.write = @ - 1]
    /\ refresh_repos(loaded)
    /\ UNCHANGED <<db_writable, locks, served, tx, dlm, cli, un, db_fail_at, rpc>>

\* pool.get() returns an error when no connection came free within the
\* connection timeout of the pool, and the unwrap of it panics; the
\* unwinding install drops its read guard
PoolTimeout(op) ==
    /\ PoolExhausted(calls)
    /\ calls[op].get > 0
    /\ calls' = [calls EXCEPT ![op].get = @ - 1]
    /\ result' = Other(op, KeyA, "panic:pool")
    /\ UNCHANGED <<repos, cache, disk, db, lastOp, db_writable, locks, served, tx, dlm,
                   cli, un, db_fail_at, rpc>>

PoolSnapshots == {s \in ConcSnapshots : s # <<>>}

\* a new store, on a platform of either lock policy
InitPool ==
    /\ repos = <<>>
    /\ cache = {}
    /\ diskFiles = {}
    /\ diskDirs = {Prefix, Prefix \o <<"pkg">>}
    /\ packages = {}
    /\ packages_files = <<>>
    /\ packages_dependencies = <<>>
    /\ result = Other("create", NoKey, "Ok")
    /\ lastOp = [k \in Keys |-> "none"]
    /\ db_writable = TRUE
    /\ guards = [t \in Threads |-> Idle]
    /\ pending = <<>>
    /\ served = [u \in ConfigUrls |-> Failed]
    /\ tx = NoTransaction
    /\ dlm = NoDownload
    /\ cli = "none"
    /\ un = NoUninstall
    /\ db_fail_at = 0
    /\ calls \in {[NoCalls EXCEPT !.writer_first = b] : b \in BOOLEAN}
    /\ rpc = NoRpc

NextPool ==
    \/ \E op \in {"status", "uninstall", "install", "refresh_repos"} : Call(op)
    \/ StatusGet(KeyA)
    \/ StatusRead
    \/ StatusEnd(KeyA)
    \/ UninstallGet
    \/ UninstallEnd(KeyA)
    \/ InstallRead(KeyA, <<>>)
    \/ InstallGet
    \/ InstallEnd(KeyA, <<>>)
    \/ \E s \in PoolSnapshots : RefreshWrite(s)
    \/ \E op \in {"status", "uninstall", "install"} : PoolTimeout(op)
    \/ download(KeyA) /\ Running(calls) = 0 /\ UNCHANGED beyond_store

SpecPool == InitPool /\ [][NextPool]_vars

\* SpecRead: two packages, with the calls that only read next to the calls
\* that write
NextRead ==
    \/ \E k \in Keys, tb \in TwoTarballs : install(k, tb) /\ UNCHANGED beyond_store
    \/ \E k \in Keys : uninstall(k) /\ UNCHANGED beyond_store
    \/ \E s \in TwoSnapshots : refresh_repos(s) /\ UNCHANGED beyond_store
    \/ \E k \in Keys : download(k) /\ UNCHANGED beyond_store
    \/ \E k \in Keys : status(k) /\ UNCHANGED beyond_store
    \/ \E u \in ConfigUrls : all_statuses(u) /\ UNCHANGED beyond_store
    \/ \E k \in Keys : find_package_by_key(k) /\ UNCHANGED beyond_store
    \/ \E i \in PackageIds : find_package_by_id(i) /\ UNCHANGED beyond_store

SpecRead == Init /\ [][NextRead]_vars

\* SpecRpc: the rpc client, with transactions submitted one after the other
\* and cancel callbacks arriving at any time
GuardDroppedAtOnce(pc) == FALSE

\* `let mut global_tx = CURRENT_CANCEL_TX.lock().unwrap()`: the guard is a
\* local of pahkat_rpc_process_transaction and lives until the call returns
GuardHeld(pc) == pc \in {"stored", "spawned"}

\* lines 272-275: the channel is made, the mutex taken, the sender stored
ProcessStore ==
    /\ rpc.proc.pc = "idle" /\ ~rpc.poisoned
    /\ \E n \in 1..MaxStreams :
         /\ rpc.streams[n] = NoStream
         /\ \A k \in 1..(n - 1) : rpc.streams[k] # NoStream
         /\ rpc' = [rpc EXCEPT !.global = n,
                               !.proc = [pc |-> "stored", n |-> n],
                               !.streams[n] = [msgs |-> <<>>, rx |-> TRUE, task |-> "none"]]
    /\ UNCHANGED <<store, db_writable, locks, served, tx, dlm, cli, un, db_fail_at, calls>>

\* lines 277-299: the task that will call the server is spawned
ProcessSpawn ==
    /\ rpc.proc.pc = "stored"
    /\ rpc' = [rpc EXCEPT !.proc.pc = "spawned", !.streams[rpc.proc.n].task = "waiting"]
    /\ UNCHANGED <<store, db_writable, locks, served, tx, dlm, cli, un, db_fail_at, calls>>

\* lines 300-308: the Transaction message is sent (an error, when the
\* receiver is gone, is returned by ?) and the call returns
ProcessSend ==
    /\ rpc.proc.pc = "spawned"
    /\ LET n == rpc.proc.n IN
       rpc' = [rpc EXCEPT !.proc = [pc |-> "idle", n |-> 0],
                          !.streams[n].msgs =
                             IF rpc.streams[n].rx THEN Append(@, "Transaction") ELSE @]
    /\ UNCHANGED <<store, db_writable, locks, served, tx, dlm, cli, un, db_fail_at, calls>>

\* line 280: the task takes the write lock of the client and opens the call
TaskLock(n) ==
    /\ rpc.streams[n].task = "waiting" /\ rpc.client = 0
    /\ rpc' = [rpc EXCEPT !.client = n, !.streams[n].task = "streaming"]
    /\ UNCHANGED <<store, db_writable, locks, served, tx, dlm, cli, un, db_fail_at, calls>>

\* lines 282-298: the call fails or the response stream ends; the task
\* ends, the client lock and the receiver of the request stream are dropped
TaskEnd(n) ==
    /\ rpc.streams[n].task = "streaming"
    /\ rpc' = [rpc EXCEPT !.client = 0, !.streams[n].task = "done",
                          !.streams[n].rx = FALSE]
    /\ UNCHANGED <<store, db_writable, locks, served, tx, dlm, cli, un, db_fail_at, calls>>

\* a transaction is in flight while the receiver of its request stream is
\* alive: from the making of the channel to the end of its task
InFlight(r) == \E n \in 1..MaxStreams : r.streams[n].rx

\* pahkat_rpc_cancel_callback is called and is at the lock of line 248
CancelCall ==
    /\ rpc.cancel.pc = "idle"
    /\ rpc' = [rpc EXCEPT !.cancel = [pc |-> "at_lock", raced |-> rpc.proc.pc # "idle"]]
    /\ UNCHANGED <<store, db_writable, locks, served, tx, dlm, cli, un, db_fail_at, calls>>

\* lines 248-260: with the mutex, the sender is taken out of the global
\* and the Cancel message sent on it; the unwrap of a failed lock or of a
\* failed send panics, the latter with the guard alive
CancelRun ==
    /\ rpc.cancel.pc = "at_lock"
    /\ ~GuardHeld(rpc.proc.pc)
    /\ LET n    == rpc.global
           did(r) == [res |-> r, raced |-> rpc.cancel.raced, n |-> n,
                      in_flight |-> InFlight(rpc), client |-> rpc.client]
           back == [rpc EXCEPT !.cancel = [pc |-> "idle", raced |-> FALSE]]
       IN  rpc' = IF rpc.poisoned THEN [back EXCEPT !.last = did("panic")]
                  ELSE IF n = 0 THEN [back EXCEPT !.last = did("noop")]
                  ELSE IF rpc.streams[n].rx
                  THEN [back EXCEPT !.global = 0, !.last = did("sent"),
                                    !.streams[n].msgs = Append(@, "Cancel")]
                  ELSE [back EXCEPT !.global = 0, !.last = did("panic"),
                                    !.poisoned = TRUE]
    /\ UNCHANGED <<store, db_writable, locks, served, tx, dlm, cli, un, db_fail_at, calls>>

NextRpc ==
    \/ ProcessStore
    \/ ProcessSpawn
    \/ ProcessSend
    \/ \E n \in 1..MaxStreams : TaskLock(n)
    \/ \E n \in 1..MaxStreams : TaskEnd(n)
    \/ CancelCall
    \/ CancelRun

SpecRpc == Init /\ [][NextRpc]_vars

\* ------------------------------------------------------------- properties
\* the record of key as the store reads it back
Lookup(key) == find_by_id(packages, packages_files, packages_dependencies, key)
\* install results that are returned before anything is unpacked
PreUnpackErrors == {"Err:Payload", "Err:WrongPayloadType", "Err:PackageNotInCache"}

\* C1: a key has a row in packages exactly when the last successful
\* operation on it was an install (so an install of another key leaves it)
C1_RecordIffLastInstall ==
    \A k \in Keys : HasRow(k) <=> lastOp[k] = "install"

\* C2: status(k) right after a successful install(k) returns UpToDate, and
\* right after a successful uninstall(k) returns NotInstalled
C2_StatusRoundTrip ==
    result.op = "status" =>
        /\ result.after = "install" => result.val = "UpToDate"
        /\ result.after = "uninstall" => result.val = "NotInstalled"

\* C3: right after a successful install(k) every recorded path of k names an
\* entry under the package directory, and right after the uninstall(k) that
\* follows it none of the regular files the install unpacked is left
C3_FilesMatchRecord ==
    /\ (result.op = "install" /\ result.val = "UpToDate") =>
          LET fs == files(packages, packages_files, to_string(result.key)) IN
          \A i \in 1..Len(fs) :
             package_dir(result.key.id) \o StrToPath(fs[i]) \in diskFiles \cup diskDirs
    /\ (result.op = "uninstall" /\ result.val = "NotInstalled"
           /\ result.after = "install") =>
          result.rec.unpacked \cap diskFiles = {}

\* C4: uninstall(k) of a key that had a row in packages returns NotInstalled
\* and deletes the row, whatever recorded files were missing
C4_UninstallSucceeds ==
    (result.op = "uninstall" /\ result.had) =>
        result.val = "NotInstalled" /\ ~HasRow(result.key)

\* C5: an install that reaches a tarball with a ".." or absolute entry path
\* fails with UnsafePath and creates no record
C5_UnsafeRejected ==
    (result.op = "install" /\ result.unsafe /\ result.val \notin PreUnpackErrors) =>
        /\ result.val = "Err:UnsafePath"
        /\ ~result.had => ~HasRow(result.key)

\* C6: an install step, failed or not, creates no file or directory outside
\* the package directory of the key it installs
C6_InstallStaysInPackageDir ==
    [][result'.op = "install" =>
          \A p \in (diskFiles' \cup diskDirs' \cup result'.rec.unpacked)
                      \ (diskFiles \cup diskDirs) :
             IsPrefixOf(package_dir(result'.key.id), p)]_vars

\* C6 witness: an install of a tarball with an unsafe entry path has
\* unpacked a file below the package directory
C6_Witness ==
    /\ result.op = "install" /\ result.unsafe
    /\ result.val \in {"UpToDate", "panic"}
    /\ \E p \in diskFiles : IsPrefixOf(package_dir(result.key.id), p)

\* C7: an install of a resolvable key whose payload is not in the download
\* cache returns PackageNotInCache and changes neither disk nor database
C7_NotInCacheChangesNothing ==
    [][(/\ result'.op = "install"
        /\ resolve_payload(result'.key, {"TarballPackage"}, repos).err = ""
        /\ PayloadUrl(result'.key.id) \notin cache)
       => /\ result'.val = "Err:PackageNotInCache"
          /\ UNCHANGED <<disk, db, cache, repos>>]_vars

\* C7 witness: an install has returned PackageNotInCache while files of an
\* earlier install and its record are present
C7_Witness ==
    /\ result.op = "install" /\ result.val = "Err:PackageNotInCache"
    /\ result.had
    /\ diskFiles # {}

\* C8: with a row in packages and a resolvable release, status returns
\* UpToDate, RequiresUpdate or VersionSkipped by comparing the versions, and
\* NotInstalled only without a row
C8_StatusComparesVersions ==
    result.op = "status" =>
        LET r == resolve_payload(result.key, {"TarballPackage"}, repos)
            v == version(packages, to_string(result.key))
        IN  /\ (v.some /\ r.err = "") =>
                  result.val = IF ParseVersion(v.v) = r.release.version THEN "UpToDate"
                               ELSE IF ParseVersion(v.v) < r.release.version
                               THEN "RequiresUpdate"
                               ELSE "VersionSkipped"
            /\ result.val = "NotInstalled" => ~v.some

\* C9: after a reinstall of key k there is one row of k, and the record read
\* back has the version, files and dependencies of this install only
C9_ReinstallReplaces ==
    (result.op = "install" /\ result.val = "UpToDate" /\ result.had) =>
        /\ Cardinality({r \in packages : r.url = to_string(result.key)}) = 1
        /\ Lookup(result.key).found
        /\ Lookup(result.key).record.version = VersionToString(result.rec.version)
        /\ Lookup(result.key).record.files = result.rec.files
        /\ Lookup(result.key).record.dependencies = DepList(result.rec.deps)

\* C10: after a successful install(k) the lookup of k succeeds and returns
\* the identifiers of the target's dependency map
C10_DependenciesReadBack ==
    (result.op = "install" /\ result.val = "UpToDate") =>
        /\ Lookup(result.key).found
        /\ Lookup(result.key).record.dependencies = DepList(result.rec.deps)

\* C11: an install whose database write fails returns the DatabaseWrite
\* error as a value, leaves the files it unpacked in place and commits no
\* record for the key
C11_DbWriteFailureReturned ==
    (/\ result.op = "install"
     /\ ~db_writable
     /\ result.val \notin PreUnpackErrors \cup {"panic"}) =>
        /\ result.val = "Err:DatabaseWrite"
        /\ result.rec.unpacked \subseteq diskFiles
        /\ ~result.had => ~HasRow(result.key)

\* C12: while a call holds its read guard the repository map does not
\* change, so the call reads one map from start to end; and the map changes
\* only in the one step of a refresh that stores the whole loaded map
C12_OneMapPerOperation ==
    [][/\ (\E t \in Threads : guards[t] # Idle) => repos' = repos
       /\ repos' # repos =>
            /\ result'.op = "refresh_repos"
            /\ pending # <<>>
            /\ repos' = pending[1]]_vars

\* C12 witness: a call holds its read guard on a loaded map while a refresh
\* has loaded a different map and waits to store it
C12_Witness ==
    /\ \E t \in Threads : guards[t] # Idle /\ guards[t].op = "install"
    /\ repos # <<>>
    /\ pending # <<>>
    /\ pending[1] # repos

\* C13: after a refresh, a configured url that failed to load and had an
\* entry before keeps that entry, and every url that loaded has the index it
\* serves now
C13_FailedUrlKeepsEntry ==
    [][result'.op = "refresh_repos" =>
          \A u \in ConfigUrls :
             /\ (~served[u].ok /\ u \in DOMAIN repos) =>
                    (u \in DOMAIN repos' /\ repos'[u] = repos[u])
             /\ served[u].ok =>
                    (u \in DOMAIN repos' /\ repos'[u] = served[u].index)]_vars

\* C14: in a constructed plan an install of a package comes before the
\* installs of the packages that depend on it, and an uninstall of a package
\* comes after the uninstalls of the packages that depend on it
C14_PlanRespectsDependencies ==
    tx.state = "Ready" =>
        \A i, j \in 1..Len(tx.plan) :
            LET x == tx.plan[i]
                y == tx.plan[j]
            IN  /\ (x.kind = "install" /\ y.kind = "install"
                       /\ x.key.id \in DepsOf(repos, y.key.id)) => i < j
                /\ (x.kind = "uninstall" /\ y.kind = "uninstall"
                       /\ x.key.id \in DepsOf(repos, y.key.id)) => j < i

\* C14 witness: a plan whose actions were asked for in the other order: the
\* dependent was asked to be installed first, or the dependency was asked to
\* be uninstalled first
C14_Witness ==
    /\ tx.state = "Ready"
    /\ Len(tx.asked) = 2 /\ Len(tx.plan) = 2
    /\ tx.asked[1] = tx.plan[2]
    /\ tx.asked[2] = tx.plan[1]

\* the stream as the callback of the rpc client receives it
Callbacks == [i \in 1..Len(tx.events) |-> CallbackTransactionResponse_from(tx.events[i])]
\* the places of the events of one type about package k
Pos(ty, k) == {i \in 1..Len(Callbacks) : Callbacks[i].ty = ty /\ Callbacks[i].value.id = k}
Installs(plan) == {plan[i].key.id : i \in {j \in 1..Len(plan) : plan[j].kind = "install"}}
StartedTypes == {"InstallStarted", "UninstallStarted"}
TerminalTypes == {"TransactionComplete", "TransactionError"}

\* C15: for every install action of the plan the events about its key come
\* in the order DownloadProgress*, DownloadComplete, InstallStarted,
\* TransactionProgress, each of the last three at most once and never
\* without the one before it
C15_InstallEventOrder ==
    \A k \in Installs(tx.plan) :
        /\ \A p \in Pos("DownloadProgress", k), c \in Pos("DownloadComplete", k) : p < c
        /\ Cardinality(Pos("DownloadComplete", k)) <= 1
        /\ Cardinality(Pos("InstallStarted", k)) <= 1
        /\ Cardinality(Pos("TransactionProgress", k)) <= 1
        /\ \A s \in Pos("InstallStarted", k) : \E c \in Pos("DownloadComplete", k) : c < s
        /\ \A p \in Pos("TransactionProgress", k) : \E s \in Pos("InstallStarted", k) : s < p

\* C15 witness: a completed transaction of two installs whose stream has the
\* four events of both keys
C15_Witness ==
    /\ tx.state = "Complete"
    /\ Installs(tx.plan) = PackageIds
    /\ \A k \in PackageIds :
          /\ Pos("DownloadProgress", k) # {}
          /\ Pos("DownloadComplete", k) # {}
          /\ Pos("InstallStarted", k) # {}
          /\ Pos("TransactionProgress", k) # {}

Last(seq) == seq[Len(seq)]
Executed == {"Running", "Complete", "Error"}
Ended == {"Complete", "Error"}
OkResults == {"UpToDate", "NotInstalled"}

\* the stream of an executed transaction opens with its one
\* TransactionStarted, and a terminal event is its last event
StreamWellFormed ==
    tx.state \in Executed =>
        /\ Len(tx.events) >= 1
        /\ tx.events[1].type = "TransactionStarted"
        /\ \A i \in 2..Len(tx.events) : tx.events[i].type # "TransactionStarted"
        /\ \A i \in 1..Len(tx.events) :
              tx.events[i].type \in TerminalTypes => i = Len(tx.events)
        /\ tx.state \in Ended <=> Last(tx.events).type \in TerminalTypes

\* nothing is emitted after the terminal event; an action that fails ends
\* the transaction with TransactionError; after a failed download no action
\* is started
FailureEnds ==
    /\ tx.state \in Ended => tx'.events = tx.events
    /\ (tx.state = "Running" /\ tx.busy /\ ~tx'.busy /\ result'.val \notin OkResults) =>
          /\ tx'.state = "Error"
          /\ Last(tx'.events).type = "TransactionError"
    /\ (tx.state = "Running" /\ tx'.events # tx.events
           /\ \E j \in 1..Len(tx.dl) : tx.dl[j].st = "failed") =>
          Last(tx'.events).type \notin StartedTypes

\* C16: an executed transaction emits TransactionStarted once and first and
\* in the end exactly one terminal event, with nothing after it; when an
\* action fails the terminal event is TransactionError and no later action
\* of the plan is started
C16_OneStartOneTerminal ==
    /\ []StreamWellFormed
    /\ [][FailureEnds]_vars
    /\ (tx.state = "Running") ~> (tx.state \in Ended)

\* C16 witness: the first action of a plan of two has failed, the stream
\* has ended with its TransactionError and the second action never started
C16_Witness ==
    /\ tx.state = "Error"
    /\ Len(tx.plan) = 2 /\ tx.step = 1
    /\ Last(tx.events).type = "TransactionError"
    /\ Last(tx.events).id = tx.plan[1].key.id
    /\ \A i \in 1..Len(tx.events) :
          tx.events[i].type \in StartedTypes => tx.events[i].id = tx.plan[1].key.id

\* the InstallStarted and UninstallStarted events of the stream, in order
Started == SelectSeq(tx.events, LAMBDA e : e.type \in StartedTypes)
\* the places of the events of the stream whose type is in tys
Places(tys) == {i \in 1..Len(tx.events) : tx.events[i].type \in tys}

\* C17: the started events follow the plan, one per step from the first
\* step on, and between two started events the action of the first one has
\* ended: at most one install or uninstall is in progress
C17_SequentialInPlanOrder ==
    tx.state \in Executed =>
        /\ Len(Started) <= Len(tx.plan)
        /\ \A i \in 1..Len(Started) :
              /\ Started[i].id = tx.plan[i].key.id
              /\ Started[i].type = IF tx.plan[i].kind = "install"
                                   THEN "InstallStarted" ELSE "UninstallStarted"
        /\ \A s1, s2 \in Places(StartedTypes) :
              s1 < s2 => \E p \in Places({"TransactionProgress"}) : s1 < p /\ p < s2
        /\ tx.busy => Len(Started) = tx.step
        /\ ~tx.busy /\ tx.state = "Running" => Len(Started) = tx.step - 1

\* C17 witness: two installs were started in plan order although the
\* download of the second one completed first
C17_Witness ==
    /\ tx.state \in Executed
    /\ Len(tx.plan) = 2 /\ Len(Started) = 2
    /\ \E c1, c2 \in Places({"DownloadComplete"}) :
          /\ tx.events[c1].id = tx.plan[1].key.id
          /\ tx.events[c2].id = tx.plan[2].key.id
          /\ c2 < c1

\* while the flag is set no action is started, and outside of an action in
\* progress no row is added to packages
NothingStartsAfterCancel ==
    (tx.state = "Running" /\ tx.cancel) =>
        /\ tx'.events # tx.events => Last(tx'.events).type \notin StartedTypes
        /\ ~tx.busy => packages' \subseteq packages
EndsCancelled ==
    /\ tx.state = "Error"
    /\ Last(tx.events).type = "TransactionError"
    /\ Last(tx.events).reason = "Cancelled"

\* C18: once the cancellation handle of a running transaction is signalled
\* no further InstallStarted or UninstallStarted is emitted, no row is added
\* for an action that had not started, and the stream ends with
\* TransactionError whose reason is Cancelled
C18_CancelStopsTransaction ==
    /\ [][NothingStartsAfterCancel]_vars
    /\ []((tx.state \in Ended /\ tx.cancel) => EndsCancelled)
    /\ (tx.state = "Running" /\ tx.cancel) ~> EndsCancelled

\* C18 witness: a transaction cancelled after a DownloadProgress event has
\* ended with TransactionError Cancelled, with no InstallStarted in its
\* stream and no row in packages
C18_Witness ==
    /\ tx.cancel /\ EndsCancelled
    /\ Places({"DownloadProgress"}) # {}
    /\ Places(StartedTypes) = {}
    /\ tx.plan # <<>> /\ packages = {}

DownloadErrors == {"Err:SizeMismatch", "Err:HashMismatch", "Err:Cancelled"}

\* C19: the file at the cache path of the payload, when there is one, has
\* the declared size and hash, and is there exactly when the cache has the
\* payload; a download that returned the path left such a file, and a
\* download that ended with a size mismatch, a hash mismatch or a
\* cancellation left no file at the path and no temporary file
C19_CacheHoldsVerifiedFiles ==
    /\ dlm.final.exists =>
          /\ Len(dlm.final.data) = DeclaredPayload.size
          /\ sha256(dlm.final.data) = DeclaredPayload.hash
    /\ dlm.final.exists <=> PayloadUrl("a") \in cache
    /\ (result.op = "download" /\ result.val = "Ok") => dlm.final.exists
    /\ (result.op = "download" /\ result.val \in DownloadErrors) =>
          ~dlm.final.exists /\ ~dlm.temp.exists

\* C19 witness: a download of a body one byte shorter than declared has
\* ended with SizeMismatch after the bytes were written
C19_Witness ==
    /\ result.op = "download" /\ result.val = "Err:SizeMismatch"
    /\ Len(dlm.body) = DeclaredPayload.size - 1
    /\ dlm.st = "idle"

\* the places of the releases of package a that pass the channel filter of
\* query q and have a target matching q
Eligible(q) ==
    LET rels == repos[RepoUrl]["a"].releases IN
    {i \in 1..Len(rels) :
        /\ rels[i].channel = q.channel
        /\ \E j \in 1..Len(rels[i].targets) : TargetMatches(rels[i].targets[j], q)}

\* C20: resolve returns a release of the highest version among the releases
\* that pass the channel filter and have a matching target, with the first
\* matching target of that release in declared order, and fails with
\* NoMatchingPayload exactly when there is no such release
C20_ResolveHighestFirstTarget ==
    (/\ result.op = "resolve"
     /\ RepoUrl \in DOMAIN repos
     /\ "a" \in DOMAIN repos[RepoUrl]) =>
        LET rels == repos[RepoUrl]["a"].releases
            q    == result.query
            r    == result.val
        IN  IF Eligible(q) = {}
            THEN r.err = "NoMatchingPayload"
            ELSE /\ r.err = ""
                 /\ \E i \in Eligible(q) : rels[i] = r.release
                 /\ \A i \in Eligible(q) : rels[i].version <= r.release.version
                 /\ \E j \in 1..Len(r.release.targets) :
                       /\ r.release.targets[j] = r.target
                       /\ TargetMatches(r.target, q)
                       /\ \A n \in 1..(j - 1) : ~TargetMatches(r.release.targets[n], q)

\* C20 witness: with no channel asked for, the release without a channel is
\* returned although a release of a higher version in channel beta has a
\* matching target, and its second target is returned because its first
\* does not match
C20_Witness ==
    /\ result.op = "resolve"
    /\ result.query.channel = ""
    /\ result.val.err = ""
    /\ Len(result.val.release.targets) = 2
    /\ result.val.release.targets[2] = result.val.target
    /\ result.val.release.targets[1] # result.val.target
    /\ \E i \in 1..Len(repos[RepoUrl]["a"].releases) :
          LET x == repos[RepoUrl]["a"].releases[i] IN
          /\ x.channel = "beta"
          /\ x.version > result.val.release.version
          /\ \E j \in 1..Len(x.targets) : TargetMatches(x.targets[j], result.query)

\* C21: the install command of pahkat-cli returns success only when the
\* stream of its transaction holds TransactionComplete, and never when the
\* transaction has ended with TransactionError
C21_CliSuccessMeansComplete ==
    cli = "Ok" =>
        /\ \E i \in 1..Len(tx.events) : tx.events[i].type = "TransactionComplete"
        /\ tx.state # "Error"

\* C22: an uninstall of an installed key ends well whatever the external
\* actor removes while it runs: no file system call of it panics
C22_UninstallSurvivesRemoval ==
    ~(result.op = "uninstall"
      /\ result.val \in {"panic:remove_file", "panic:read_dir", "panic:remove_dir"})

\* C23: when uninstall(k) succeeds, every directory among the paths recorded
\* for k that is still on disk afterwards has something in it
C23_NoRecordedDirLeftEmpty ==
    [][(result'.op = "uninstall" /\ result'.val = "NotInstalled")
       => LET fs == files(packages, packages_files, to_string(result'.key)) IN
          \A i \in 1..Len(fs) :
             LET d == package_dir(result'.key.id) \o StrToPath(fs[i]) IN
             d \in diskDirs' => Children(d, diskFiles', diskDirs') # {}]_vars

\* C24: uninstall of a key with no row in packages returns the NotInstalled
\* error and changes neither the disk nor the database
C24_UninstallOfAbsentChangesNothing ==
    [][(result'.op = "uninstall" /\ ~HasRow(result'.key))
       => /\ result'.val = "Err:NotInstalled"
          /\ UNCHANGED <<disk, db>>]_vars

\* C24 witness: an uninstall has returned the NotInstalled error while the
\* record and the files of the other package are present
C24_Witness ==
    /\ result.op = "uninstall" /\ result.val = "Err:NotInstalled"
    /\ packages # {} /\ packages_files # <<>>
    /\ diskFiles # {}

\* C25: status decides on the record first: without a row it returns
\* NotInstalled whatever the map holds, and with a row and a key that does
\* not resolve it returns the resolver's error as the Payload error
C25_StatusRecordBeforeResolve ==
    result.op = "status" =>
        LET r == resolve_payload(result.key, {"TarballPackage"}, repos)
            v == version(packages, to_string(result.key))
        IN  /\ ~v.some => result.val = "NotInstalled"
            /\ (v.some /\ r.err # "") => result.val = "Err:Payload"

\* C26: an install whose database write fails at any statement, and an
\* uninstall whose record deletion fails at any statement, leave the rows
\* of the three tables as they were before the call
C26_DatabaseWriteAllOrNothing ==
    [][(\/ result'.op = "install" /\ result'.val = "panic:save"
        \/ result'.op = "uninstall" /\ result'.val = "panic:delete")
       => UNCHANGED db]_vars

\* C26 witness: the write of a reinstall with other files has failed at an
\* insert, after the REPLACE and the two DELETEs, and the rows of the
\* earlier install are present
C26_Witness ==
    /\ result.op = "install" /\ result.val = "panic:save"
    /\ db_fail_at > 3 /\ db_fail_at <= 3 + Len(result.rec.files) + Cardinality(result.rec.deps)
    /\ packages # {} /\ packages_files # <<>>
    /\ files(packages, packages_files, to_string(result.key)) # result.rec.files

\* every running call is at a place where it waits: for a connection while
\* the pool is exhausted, for a read guard behind a waiting writer, or for
\* the write guard while a read guard is held
CircularWait ==
    /\ Running(calls) > 0
    /\ calls.status.both + calls.uninstall.run + calls.install.both = 0
    /\ (calls.status.get + calls.uninstall.get + calls.install.get > 0)
          => PoolExhausted(calls)
    /\ (calls.status.read + calls.install.read > 0) => ReadBlocked(calls)
    /\ calls.refresh.write > 0 => WriteBlocked(calls)

\* C27: no interleaving of install, uninstall, status and refresh_repos
\* calls reaches a state in which every running call waits for the lock of
\* the repository map or for a connection that another running call holds
C27_NoCircularWait == ~CircularWait

C29_TransactionMessageFirst ==
    \A n \in 1..MaxStreams :
        rpc.streams[n].msgs # <<>> => rpc.streams[n].msgs[1] = "Transaction"

\* C29 witness: a cancel callback that was called while the
\* process_transaction call was running has put its Cancel on the stream,
\* after the Transaction message
C29_Witness ==
    /\ rpc.last.res = "sent" /\ rpc.last.raced
    /\ rpc.streams[rpc.last.n].msgs = <<"Transaction", "Cancel">>

\* C30: a cancel callback that runs when no transaction is in flight
\* (before the first one, a second time for the same one, or after the
\* response stream ended and the request stream was closed) returns
\* normally and sends nothing
C30_CancelWithoutTransactionIsNoOp ==
    (rpc.last.res # "none" /\ ~rpc.last.in_flight) => rpc.last.res = "noop"

\* C31: with a transaction being processed (its task holds the client), a
\* cancel callback delivers its Cancel message to that transaction, also
\* after process_transaction was called a second time, and not to the one
\* that still waits for the client lock
C31_CancelReachesProcessedTransaction ==
    (rpc.last.res = "sent" /\ rpc.last.client # 0) => rpc.last.n = rpc.last.client
====
